---- MODULE Spec2Model ----
(***************************************************************************)
(* Driving data analytics engine of the Tessie MCP server: the trip        *)
(* segmenter (DriveAnalyzer), the charging session detector                *)
(* (ChargingAnalyzer), the efficiency trend analyzer (EfficiencyAnalyzer)  *)
(* and the commute route clusterer (CommuteAnalyzer).                      *)
(*                                                                         *)
(* Units.  Timestamps are Unix seconds.  Distances of raw drives are in    *)
(* thousandths of a mile; every value the code rounds with                 *)
(* Math.round(x * 100) / 100 is kept in hundredths of its unit.  Battery   *)
(* levels are whole percentage points.  Location labels are sequences of   *)
(* one-character strings.                                                  *)
(***************************************************************************)
EXTENDS Integers, Sequences, FiniteSets, TLC

VARIABLES
    comp,           \* which analyzer the caller is exercising
    pc,             \* the caller's position
    drives,         \* the caller's TessieDrive[] list
    merged,         \* result of mergeDrives(drives)
    mergedAgain,    \* result of a second mergeDrives(drives)
    mergedRev,      \* result of mergeDrives on a reversed copy of drives
    homeLocations,      \* ChargingAnalyzer.homeLocations
    workLocations,      \* ChargingAnalyzer.workLocations
    frequentLocations,  \* ChargingAnalyzer.frequentLocations
    sessions,           \* result of the latest detectChargingSessions(drives)
    calls,              \* number of analyzer calls made so far
    now,                \* the host clock read by new Date(), Unix seconds
    effResult,          \* result of analyzeEfficiencyTrends(drives)
    commuteResult,      \* result of analyzeCommutes(drives)
    costAnalysis,       \* result of analyzeChargingCosts(sessions)
    tripResult,         \* result of calculateTripCost(drives, ...)
    futureResult,       \* result of estimateFutureTripCost(...)
    cache,              \* GeocodingService.cache, entries in insertion order
    lastRequestTime,    \* GeocodingService.lastRequestTime, ms
    clock,              \* Date.now(), ms
    lookups,            \* the reverseGeocode calls and where each one stands
    requestLog          \* the times at which a Nominatim request was sent

segVars    == <<merged, mergedAgain, mergedRev>>
chargeVars == <<homeLocations, workLocations, frequentLocations, sessions, calls>>

analysisVars == <<now, effResult, commuteResult>>

costVars == <<costAnalysis, tripResult, futureResult>>

geoVars == <<cache, lastRequestTime, clock, lookups, requestLog>>

vars == <<comp, pc, drives, segVars, chargeVars, analysisVars, costVars, geoVars>>

(***************************************************************************)
(* Bounds of the model.                                                    *)
(***************************************************************************)
MaxDrives == 3
MaxChargeDrives == 3
MaxDetectCalls == 2
MaxTrendDrives == 10
MaxAddedDrives == 4
MaxStayAdds == 2

(***************************************************************************)
(* Arithmetic helpers.                                                     *)
(***************************************************************************)
\* Math.round(a / b) for b > 0: the nearest integer, halves towards +Infinity
RoundDiv(a, b) == (2 * a + b) \div (2 * b)

Max2(a, b) == IF a >= b THEN a ELSE b
Min2(a, b) == IF a <= b THEN a ELSE b

RECURSIVE SumSeq(_)
SumSeq(s) == IF s = <<>> THEN 0 ELSE Head(s) + SumSeq(Tail(s))

RECURSIVE MaxSeq(_)
MaxSeq(s) == IF Len(s) = 1 THEN s[1] ELSE Max2(s[1], MaxSeq(Tail(s)))

RECURSIVE Flatten(_)
Flatten(ss) == IF ss = <<>> THEN <<>> ELSE Head(ss) \o Flatten(Tail(ss))

Reverse(s) == [i \in 1..Len(s) |-> s[Len(s) + 1 - i]]

\* a result variable before the call that sets it
NoResult == <<>>

\* the variables of the analyzers that a caller does not exercise
SegmenterIdle == merged = NoResult /\ mergedAgain = NoResult /\ mergedRev = NoResult
AnalysisIdle  == now = 0 /\ effResult = NoResult /\ commuteResult = NoResult
GeocodingIdle ==
    /\ cache = <<>>
    /\ lastRequestTime = 0
    /\ clock = 0
    /\ lookups = <<>>
    /\ requestLog = <<>>
CostIdle      == costAnalysis = NoResult /\ tripResult = NoResult /\ futureResult = NoResult

(***************************************************************************)
(* Array.prototype.sort((a, b) => a.started_at - b.started_at): a stable   *)
(* sort, so drives with equal started_at keep their relative input order.  *)
(***************************************************************************)
RECURSIVE InsertByStart(_, _)
InsertByStart(d, s) ==
    IF s = <<>> THEN <<d>>
    ELSE IF d.started_at < Head(s).started_at THEN <<d>> \o s
    ELSE <<Head(s)>> \o InsertByStart(d, Tail(s))

RECURSIVE SortByStart(_)
SortByStart(s) ==
    IF s = <<>> THEN <<>>
    ELSE InsertByStart(s[Len(s)], SortByStart(SubSeq(s, 1, Len(s) - 1)))

(***************************************************************************)
(* Location labels.                                                        *)
(***************************************************************************)
LocOak   == <<"1", ",", "A", ",", "T", ",", "U">>
LocElm   == <<"2", ",", " ", "B", ",", "T", ",", "U">>
LocTesla == <<"T", "e", "s", "l", "a">>

(***************************************************************************)
(* Raw drives the segmenter is exercised with: every timing combined with  *)
(* every energy profile.                                                   *)
(***************************************************************************)
MergeTimings ==
    { <<0, 180>>, <<0, 300>>, <<0, 600>>, <<600, 900>>, <<600, 600>>,
      <<2400, 4500>> }

\* <<starting_battery, ending_battery, odometer_distance, max_speed, ending_location>>
MergeEnergies ==
    { <<80, 70, 12345, 65, LocOak>>,
      <<75, 70, 4004, 0, LocElm>>,
      <<70, 70, 0, 30, LocTesla>> }

\* a TessieDrive record
TessieDrive(id, tm, battery, distance, speeds, from, to) ==
    [ id                |-> id,
      started_at        |-> tm[1],
      ended_at          |-> tm[2],
      starting_battery  |-> battery[1],
      ending_battery    |-> battery[2],
      odometer_distance |-> distance,
      average_speed     |-> speeds[1],
      max_speed         |-> speeds[2],
      starting_location |-> from,
      ending_location   |-> to ]

MkDrive(id, tm, en) ==
    TessieDrive(id, tm, <<en[1], en[2]>>, en[3], <<en[4], en[4]>>, LocOak, en[5])

(***************************************************************************)
(* DriveAnalyzer                                                           *)
(***************************************************************************)
\* gapMinutes = (next.started_at - prev.ended_at) / 60, kept in seconds
GapSeconds(prev, next) == next.started_at - prev.ended_at

\* a merge rule that also joins a gap of exactly 7 minutes
shouldMergeDrivesInclusive(prevDrive, currentDrive) ==
    \/ GapSeconds(prevDrive, currentDrive) <= 7 * 60
    \/ currentDrive.starting_battery - prevDrive.ending_battery > 5

shouldMergeDrives(prevDrive, currentDrive) ==
    \/ GapSeconds(prevDrive, currentDrive) < 7 * 60
    \/ currentDrive.starting_battery - prevDrive.ending_battery > 5

\* a stop classification that takes every stop without battery loss for charging
StopTypeNoLoss(current, next) ==
    IF next.starting_battery - current.ending_battery >= 0 THEN "charging"
    ELSE IF GapSeconds(current, next) < 7 * 60 THEN "short"
    ELSE "excluded"

\* a stop classification whose charging threshold drifted from the merge rule
StopTypeDrifted(current, next) ==
    IF next.starting_battery - current.ending_battery > 10 THEN "charging"
    ELSE IF GapSeconds(current, next) < 7 * 60 THEN "short"
    ELSE "excluded"

\* the stop of createMergedDrive for one pair of consecutive members
StopType(current, next) ==
    IF next.starting_battery - current.ending_battery > 5 THEN "charging"
    ELSE IF GapSeconds(current, next) < 7 * 60 THEN "short"
    ELSE "excluded"

MkStop(current, next) ==
    [ location         |-> current.ending_location,
      duration_minutes |-> RoundDiv(GapSeconds(current, next) * 100, 60),
      stop_type        |-> StopType(current, next),
      started_at       |-> current.ended_at,
      ended_at         |-> next.started_at ]

\* a guard that also records a stop for touching drives
StopRecordedTouching(current, next) == GapSeconds(current, next) >= 0

StopRecorded(current, next) == GapSeconds(current, next) > 0

RECURSIVE StopsOf(_)
StopsOf(group) ==
    IF Len(group) < 2 THEN <<>>
    ELSE (IF StopRecorded(group[1], group[2])
          THEN <<MkStop(group[1], group[2])>> ELSE <<>>)
         \o StopsOf(Tail(group))

(***************************************************************************)
(* Numbers that may be Infinity (a division by zero of a positive value).  *)
(***************************************************************************)
Fin(v)      == [fin |-> TRUE, val |-> v]
Infinity    == [fin |-> FALSE, val |-> 1]
NegInfinity == [fin |-> FALSE, val |-> -1]

\* x > n for a possibly infinite x and a finite n
Gt(x, n) == IF x.fin THEN x.val > n ELSE x.val > 0

\* calculateSpeedConsistency, in hundredths (1.0 = 100)
calculateSpeedConsistency(drive) ==
    IF drive.average_speed = Fin(0) \/ drive.max_speed = 0 THEN 0
    ELSE IF ~drive.average_speed.fin THEN 100
    ELSE IF drive.average_speed.val * 100 > 85 * drive.max_speed THEN 100
    ELSE IF drive.average_speed.val * 100 > 75 * drive.max_speed THEN 80
    ELSE IF drive.average_speed.val * 100 > 65 * drive.max_speed THEN 60
    ELSE IF drive.average_speed.val * 100 > 55 * drive.max_speed THEN 40
    ELSE 20

\* the four additive factors of predictAutopilotUsage, in hundredths
SpeedFactor(drive) ==
    IF Gt(drive.average_speed, 4500) THEN 40
    ELSE IF Gt(drive.average_speed, 3500) THEN 20
    ELSE 0

DistanceFactor(drive) ==
    IF drive.total_distance > 3000 THEN 30
    ELSE IF drive.total_distance > 1500 THEN 20
    ELSE IF drive.total_distance > 1000 THEN 10
    ELSE 0

ConsistencyFactor(drive) == (calculateSpeedConsistency(drive) * 20) \div 100

\* avgDrivingSpeed > 50 && driving_duration_minutes > 30; a zero duration
\* makes avgDrivingSpeed Infinity, but then the second conjunct is false
DurationFactor(drive) ==
    IF /\ drive.driving_duration_minutes > 3000
       /\ drive.total_distance * 60 > 50 * drive.driving_duration_minutes
    THEN 10 ELSE 0

\* a score that is capped at 1.0
AutopilotLikelihoodUncapped(drive) ==
    Min2(SpeedFactor(drive) + DistanceFactor(drive)
           + ConsistencyFactor(drive) + DurationFactor(drive), 100)

AutopilotLikelihood(drive) ==
    Min2(SpeedFactor(drive) + DistanceFactor(drive)
           + ConsistencyFactor(drive) + DurationFactor(drive), 90)

\* predicted autopilot miles, in hundredths of a mile
predictAutopilotUsage(drive) ==
    IF drive.total_distance < 500 THEN 0
    ELSE RoundDiv(drive.total_distance * AutopilotLikelihood(drive), 100)

\* a truncating total_distance
RoundedDistanceTruncated(totalDistance) == totalDistance \div 10

\* total_distance of a group: Math.round(totalDistance * 100) / 100
RoundedDistance(totalDistance) == RoundDiv(totalDistance, 10)

createMergedDrive(group) ==
    LET firstDrive      == group[1]
        lastDrive       == group[Len(group)]
        totalDistance   == SumSeq([i \in 1..Len(group) |-> group[i].odometer_distance])
        totalDuration   == lastDrive.ended_at - firstDrive.started_at
        drivingDuration == SumSeq([i \in 1..Len(group) |->
                                     group[i].ended_at - group[i].started_at])
        maxSpeed        == MaxSeq([i \in 1..Len(group) |-> group[i].max_speed])
        \* miles per hour in hundredths: (miles / (seconds / 3600)) * 100
        averageSpeed    == IF totalDistance > 0
                           THEN IF drivingDuration = 0 THEN Infinity
                                ELSE Fin(RoundDiv(totalDistance * 360, drivingDuration))
                           ELSE Fin(0)
        mergedDrive ==
            [ id                       |-> <<"merged">> \o [i \in 1..Len(group) |-> group[i].id],
              originalDriveIds         |-> [i \in 1..Len(group) |-> group[i].id],
              started_at               |-> firstDrive.started_at,
              ended_at                 |-> lastDrive.ended_at,
              starting_location        |-> firstDrive.starting_location,
              ending_location          |-> lastDrive.ending_location,
              starting_battery         |-> firstDrive.starting_battery,
              ending_battery           |-> lastDrive.ending_battery,
              total_distance           |-> RoundedDistance(totalDistance),
              total_duration_minutes   |-> RoundDiv(totalDuration * 100, 60),
              driving_duration_minutes |-> RoundDiv(drivingDuration * 100, 60),
              stops                    |-> StopsOf(group),
              energy_consumed          |-> firstDrive.starting_battery - lastDrive.ending_battery,
              average_speed            |-> averageSpeed,
              max_speed                |-> maxSpeed * 100 ]
        predicted == predictAutopilotUsage(mergedDrive)
    IN  [ f \in DOMAIN mergedDrive \cup {"autopilot_distance", "autopilot_percentage"} |->
            IF f = "autopilot_distance" THEN predicted
            ELSE IF f = "autopilot_percentage"
                 THEN (IF totalDistance > 0
                       THEN RoundDiv(predicted * 100000, totalDistance) ELSE 0)
            ELSE mergedDrive[f] ]

\* the groups mergeDrives forms from the sorted list, walking consecutive pairs
RECURSIVE GroupDrives(_, _, _)
GroupDrives(sortedDrives, i, currentGroup) ==
    IF i > Len(sortedDrives) THEN <<currentGroup>>
    ELSE IF shouldMergeDrives(sortedDrives[i - 1], sortedDrives[i])
         THEN GroupDrives(sortedDrives, i + 1, Append(currentGroup, sortedDrives[i]))
         ELSE <<currentGroup>> \o GroupDrives(sortedDrives, i + 1, <<sortedDrives[i]>>)

\* a mergeDrives that walks the list in the order given
mergeDrivesUnsorted(ds) ==
    IF Len(ds) = 0 THEN <<>>
    ELSE LET groups == GroupDrives(ds, 2, <<ds[1]>>)
         IN  [g \in 1..Len(groups) |-> createMergedDrive(groups[g])]

mergeDrives(ds) ==
    IF Len(ds) = 0 THEN <<>>
    ELSE LET sortedDrives == SortByStart(ds)
             groups       == GroupDrives(sortedDrives, 2, <<sortedDrives[1]>>)
         IN  [g \in 1..Len(groups) |-> createMergedDrive(groups[g])]

(***************************************************************************)
(* ChargingAnalyzer                                                        *)
(***************************************************************************)
\* defaultRates, in cents per kWh
HomeRate         == 13
SuperchargerRate == 28
PublicRate       == 20
WorkRate         == 0
OffPeakRate      == 9
PeakRate         == 32

\* batteryCapacity, kWh
BatteryCapacity == 75

\* the analyzer after construction: nothing learned
ChargingAnalyzerNew ==
    /\ homeLocations = {}
    /\ workLocations = {}
    /\ frequentLocations = <<>>
    /\ sessions = <<>>
    /\ calls = 0

\* String.prototype.toLowerCase on the letters location labels use
UpperToLower ==
    [c \in {"A", "B", "C", "E", "H", "R", "S", "T", "U"} |->
        CASE c = "A" -> "a" [] c = "B" -> "b" [] c = "C" -> "c"
          [] c = "E" -> "e" [] c = "H" -> "h" [] c = "R" -> "r"
          [] c = "S" -> "s" [] c = "T" -> "t" [] c = "U" -> "u"]

ToLowerCase(str) ==
    [i \in 1..Len(str) |->
        IF str[i] \in DOMAIN UpperToLower THEN UpperToLower[str[i]] ELSE str[i]]

\* String.prototype.includes
Includes(str, sub) ==
    \E i \in 1..(Len(str) - Len(sub) + 1) : SubSeq(str, i, i + Len(sub) - 1) = sub

StrSupercharger == <<"s", "u", "p", "e", "r", "c", "h", "a", "r", "g", "e", "r">>
StrTesla        == <<"t", "e", "s", "l", "a">>

HasSuperchargerMarker(location) ==
    LET lowerLocation == ToLowerCase(location)
    IN  Includes(lowerLocation, StrSupercharger) \/ Includes(lowerLocation, StrTesla)

\* new Date(timestamp * 1000).getHours(), the host clock taken as UTC
HourOf(timestamp) == (timestamp \div 3600) % 24

\* frequentLocations.get(location) || 0
FrequentCount(freq, location) ==
    IF location \in DOMAIN freq THEN freq[location] ELSE 0

\* frequentLocations.set(location, n)
FrequentSet(freq, location, n) ==
    [l \in DOMAIN freq \cup {location} |-> IF l = location THEN n ELSE freq[l]]

\* a long stay that starts at two hours
IsLongStayTwoHours(durationSecs) == durationSecs > 120 * 60

\* duration > 240 (minutes)
IsLongStay(durationSecs) == durationSecs > 240 * 60

\* classifyLocation on analyzer state st = [home, work, freq]; the result is
\* the location type together with the state the call leaves behind
classifyLocation(st, location, durationSecs, batteryGained) ==
    IF HasSuperchargerMarker(location) THEN [type |-> "supercharger", st |-> st]
    ELSE IF durationSecs < 60 * 60 /\ batteryGained > 40
         THEN [type |-> "supercharger", st |-> st]
    ELSE IF location \in st.home THEN [type |-> "home", st |-> st]
    ELSE IF location \in st.work THEN [type |-> "work", st |-> st]
    ELSE IF IsLongStay(durationSecs)
         THEN LET count == FrequentCount(st.freq, location)
                  st1   == [st EXCEPT !.freq = FrequentSet(st.freq, location, count + 1)]
              IN  IF count > 5
                  THEN [type |-> "home", st |-> [st1 EXCEPT !.home = @ \cup {location}]]
                  ELSE [type |-> (IF durationSecs > 480 * 60 THEN "home" ELSE "work"),
                        st |-> st1]
    ELSE IF durationSecs > 30 * 60 /\ durationSecs < 240 * 60
         THEN [type |-> "public", st |-> st]
    ELSE [type |-> "unknown", st |-> st]

\* a rate table whose peak window includes the hour 21
getRateForLocationLatePeak(locationType, timestamp) ==
    LET hour == HourOf(timestamp)
    IN  CASE locationType = "home" ->
                 (IF hour >= 23 \/ hour < 7 THEN OffPeakRate
                  ELSE IF hour >= 16 /\ hour <= 21 THEN PeakRate
                  ELSE HomeRate)
          [] locationType = "supercharger" -> SuperchargerRate
          [] locationType = "public" -> PublicRate
          [] locationType = "work" -> WorkRate
          [] OTHER -> PublicRate

\* getRateForLocation, cents per kWh (time_of_use is set in defaultRates)
getRateForLocation(locationType, timestamp) ==
    LET hour == HourOf(timestamp)
    IN  CASE locationType = "home" ->
                 (IF hour >= 23 \/ hour < 7 THEN OffPeakRate
                  ELSE IF hour >= 16 /\ hour < 21 THEN PeakRate
                  ELSE HomeRate)
          [] locationType = "supercharger" -> SuperchargerRate
          [] locationType = "public" -> PublicRate
          [] locationType = "work" -> WorkRate
          [] OTHER -> PublicRate

\* createChargingSession; energy and miles in hundredths, cost in hundredths
\* of a dollar, charge rate in tenths of a kW
createChargingSession(st, prevDrive, nextDrive, batteryGained) ==
    LET durationSecs == nextDrive.started_at - prevDrive.ended_at
        location     == prevDrive.ending_location
        cls          == classifyLocation(st, location, durationSecs, batteryGained)
        costPerKwh   == getRateForLocation(cls.type, prevDrive.ended_at)
    IN  [ session |->
            [ id               |-> <<"charge", prevDrive.id, nextDrive.id>>,
              started_at       |-> prevDrive.ended_at,
              ended_at         |-> nextDrive.started_at,
              location         |-> location,
              location_type    |-> cls.type,
              starting_battery |-> prevDrive.ending_battery,
              ending_battery   |-> nextDrive.starting_battery,
              energy_added_kwh |-> batteryGained * BatteryCapacity,
              cost_estimate    |-> RoundDiv(batteryGained * BatteryCapacity * costPerKwh, 100),
              cost_per_kwh     |-> costPerKwh,
              miles_added      |-> batteryGained * BatteryCapacity * 4,
              charge_rate_kw   |-> IF durationSecs > 0
                                   THEN RoundDiv(batteryGained * BatteryCapacity * 360, durationSecs)
                                   ELSE 0,
              duration_minutes |-> RoundDiv(durationSecs * 100, 60) ],
          st |-> cls.st ]

\* a detector that takes any change of more than 2 points for charging
IndicatesChargingEitherWay(batteryGained) == batteryGained > 2 \/ batteryGained < -2

\* a detector that takes a gain of 2 points for charging
IndicatesChargingInclusive(batteryGained) == batteryGained >= 2

\* if (batteryGained > 2)
IndicatesCharging(batteryGained) == batteryGained > 2

\* the loop of detectChargingSessions from index i on, threading the state
RECURSIVE DetectFrom(_, _, _, _)
DetectFrom(sortedDrives, i, st, acc) ==
    IF i > Len(sortedDrives) THEN [sessions |-> acc, st |-> st]
    ELSE LET prevDrive     == sortedDrives[i - 1]
             currentDrive  == sortedDrives[i]
             batteryGained == currentDrive.starting_battery - prevDrive.ending_battery
         IN  IF IndicatesCharging(batteryGained)
             THEN LET r == createChargingSession(st, prevDrive, currentDrive, batteryGained)
                  IN  DetectFrom(sortedDrives, i + 1, r.st, Append(acc, r.session))
             ELSE DetectFrom(sortedDrives, i + 1, st, acc)

detectChargingSessions(st, ds) == DetectFrom(SortByStart(ds), 2, st, <<>>)

AnalyzerState == [home |-> homeLocations, work |-> workLocations, freq |-> frequentLocations]

(***************************************************************************)
(* Raw drives the charging detector is exercised with.  Drives last half   *)
(* an hour; the gaps after the first drive are 25 minutes, 3, 5 and 9      *)
(* hours.                                                                  *)
(***************************************************************************)
ChargeTimings ==
    { <<0, 1800>>, <<3300, 5100>>, <<12600, 14400>>, <<19800, 21600>>,
      <<34200, 36000>> }

ChargeEnergies ==
    { <<90, 40, 20000, 60, LocOak>>,
      <<85, 83, 5000, 40, LocElm>>,
      <<43, 40, 1000, 30, LocTesla>> }

(***************************************************************************)
(* The caller of the charging detector: it builds a drive list and then    *)
(* runs detectChargingSessions on it, repeatedly, on one analyzer.         *)
(***************************************************************************)
InitCharging ==
    /\ comp = "charging"
    /\ pc = "build"
    /\ drives = <<>>
    /\ merged = NoResult
    /\ mergedAgain = NoResult
    /\ mergedRev = NoResult
    /\ ChargingAnalyzerNew
    /\ AnalysisIdle
    /\ CostIdle
    /\ GeocodingIdle

AddChargeDrive ==
    /\ comp = "charging"
    /\ pc = "build"
    /\ Len(drives) < MaxChargeDrives
    /\ \E tm \in ChargeTimings, en \in ChargeEnergies :
          drives' = Append(drives, MkDrive(Len(drives) + 1, tm, en))
    /\ UNCHANGED <<comp, pc, segVars, chargeVars, analysisVars, costVars, geoVars>>

CallDetectChargingSessions ==
    /\ comp \in {"charging", "learning", "trip", "shared"}
    /\ calls < MaxDetectCalls
    /\ LET r == detectChargingSessions(AnalyzerState, drives)
       IN  /\ sessions' = r.sessions
           /\ homeLocations' = r.st.home
           /\ workLocations' = r.st.work
           /\ frequentLocations' = r.st.freq
    /\ calls' = calls + 1
    /\ pc' = "detected"
    /\ UNCHANGED <<comp, drives, segVars, analysisVars, costVars, geoVars>>

NextCharging ==
    \/ AddChargeDrive
    \/ CallDetectChargingSessions

SpecCharging == InitCharging /\ [][NextCharging]_vars

(***************************************************************************)
(* EfficiencyAnalyzer.  Efficiencies (kWh per 100 mi) of single drives are *)
(* kept in thousandths, averages in hundredths; quotients the code keeps   *)
(* as unrounded floats are kept as fractions [num, den].                   *)
(***************************************************************************)
Day  == 86400
Hour == 3600

\* HIGHWAY_SPEED_THRESHOLD, mph
HighwaySpeedThreshold == 55

MinEfficiencyDrives == 5

Frac(n, d) == [num |-> n, den |-> d]

RECURSIVE MinSeq(_)
MinSeq(s) == IF Len(s) = 1 THEN s[1] ELSE Min2(s[1], MinSeq(Tail(s)))

\* Math.min(...xs) and Math.max(...xs), Infinity and -Infinity on no argument
MathMin(xs) == IF xs = <<>> THEN Infinity ELSE Fin(MinSeq(xs))
MathMax(xs) == IF xs = <<>> THEN NegInfinity ELSE Fin(MaxSeq(xs))

\* EfficiencyAnalyzer.average of values in thousandths, rounded to hundredths
average(numbers) ==
    IF numbers = <<>> THEN 0
    ELSE RoundDiv(SumSeq(numbers), Len(numbers) * 10)

\* (batteryUsed / 100) * 75 / distance * 100, thousandths of a kWh per 100 mi;
\* distance is in thousandths of a mile and a multiple of 100
DriveEfficiency(drive) ==
    IF drive.odometer_distance > 0
    THEN ((drive.starting_battery - drive.ending_battery) * BatteryCapacity * 10000)
            \div (drive.odometer_distance \div 100)
    ELSE 0

\* toISOString().split('T')[0]: the UTC calendar day, as a day number
DateOf(timestamp) == timestamp \div Day

\* the data point of one drive; highway_percentage is in 45ths of a percent
DataPointOf(drive) ==
    LET efficiency == DriveEfficiency(drive)
        avgSpeed   == drive.average_speed
    IN  [ date                     |-> DateOf(drive.started_at),
          efficiency_kwh_per_100mi |-> efficiency,
          distance_miles           |-> drive.odometer_distance,
          weather_factor           |-> IF efficiency > 35000 THEN "cold"
                                       ELSE IF efficiency > 30000 THEN "hot"
                                       ELSE "mild",
          highway_percentage       |-> IF avgSpeed > HighwaySpeedThreshold
                                       THEN Min2(100 * 45, (avgSpeed - 25) * 100)
                                       ELSE 0,
          avg_speed                |-> avgSpeed ]

Plausible(dp) ==
    dp.efficiency_kwh_per_100mi > 0 /\ dp.efficiency_kwh_per_100mi < 60000

convertToDataPoints(ds) ==
    SelectSeq([i \in 1..Len(ds) |-> DataPointOf(ds[i])], Plausible)

Efficiencies(dataPoints) ==
    [i \in 1..Len(dataPoints) |-> dataPoints[i].efficiency_kwh_per_100mi]

calculateCurrentPeriodStats(dataPoints) ==
    [ avg_efficiency   |-> average(Efficiencies(dataPoints)),
      total_miles      |-> RoundDiv(SumSeq([i \in 1..Len(dataPoints) |->
                                               dataPoints[i].distance_miles]), 10),
      total_drives     |-> Len(dataPoints),
      efficiency_range |-> [ best  |-> MathMin(Efficiencies(dataPoints)),
                             worst |-> MathMax(Efficiencies(dataPoints)) ] ]

\* a direction test whose threshold is 5 percent
TrendDirectionFivePercent(previousAvg, currentAvg) ==
    IF previousAvg = 0
    THEN (IF currentAvg > 0 THEN "declining" ELSE "stable")
    ELSE IF (previousAvg - currentAvg) * 100 > 5 * previousAvg THEN "improving"
    ELSE IF (previousAvg - currentAvg) * 100 < -5 * previousAvg THEN "declining"
    ELSE "stable"

\* trend thresholds and confidence tiers of calculatePeriodTrend
TrendDirection(previousAvg, currentAvg) ==
    IF previousAvg = 0
    THEN \* a division by zero: NaN compares false, -Infinity is below -3
         (IF currentAvg > 0 THEN "declining" ELSE "stable")
    ELSE IF (previousAvg - currentAvg) * 100 > 3 * previousAvg THEN "improving"
    ELSE IF (previousAvg - currentAvg) * 100 < -3 * previousAvg THEN "declining"
    ELSE "stable"

TrendConfidence(nCurrent, nPrevious) ==
    IF nCurrent >= 5 /\ nPrevious >= 5 THEN "high"
    ELSE IF nCurrent >= 3 /\ nPrevious >= 3 THEN "medium"
    ELSE "low"

Abs(x) == IF x < 0 THEN -x ELSE x

calculatePeriodTrend(dataPoints, days, period, nowSecs) ==
    LET periodStart         == nowSecs - days * Day
        previousPeriodStart == nowSecs - 2 * days * Day
        InCurrent(dp)  == dp.date * Day >= periodStart /\ dp.date * Day <= nowSecs
        InPrevious(dp) == dp.date * Day >= previousPeriodStart /\ dp.date * Day < periodStart
        currentPeriodData  == SelectSeq(dataPoints, InCurrent)
        previousPeriodData == SelectSeq(dataPoints, InPrevious)
        currentAvg         == average(Efficiencies(currentPeriodData))
        previousAvg        == average(Efficiencies(previousPeriodData))
    IN  IF Len(currentPeriodData) < 2 \/ Len(previousPeriodData) < 2
        THEN [ period           |-> period,
               trend_direction  |-> "stable",
               trend_percentage |-> Frac(0, 1),
               avg_efficiency   |-> IF Len(currentPeriodData) > 0 THEN currentAvg ELSE 0,
               best_efficiency  |-> IF Len(currentPeriodData) > 0
                                    THEN MathMin(Efficiencies(currentPeriodData)) ELSE Fin(0),
               worst_efficiency |-> IF Len(currentPeriodData) > 0
                                    THEN MathMax(Efficiencies(currentPeriodData)) ELSE Fin(0),
               confidence       |-> "low" ]
        ELSE [ period           |-> period,
               trend_direction  |-> TrendDirection(previousAvg, currentAvg),
               trend_percentage |-> Frac(Abs(previousAvg - currentAvg) * 100, previousAvg),
               avg_efficiency   |-> currentAvg,
               best_efficiency  |-> MathMin(Efficiencies(currentPeriodData)),
               worst_efficiency |-> MathMax(Efficiencies(currentPeriodData)),
               confidence       |-> TrendConfidence(Len(currentPeriodData),
                                                    Len(previousPeriodData)) ]

calculateTrends(dataPoints, nowSecs) ==
    [ weekly   |-> calculatePeriodTrend(dataPoints, 7, "weekly", nowSecs),
      monthly  |-> calculatePeriodTrend(dataPoints, 30, "monthly", nowSecs),
      seasonal |-> calculatePeriodTrend(dataPoints, 90, "seasonal", nowSecs) ]


\* new Date(ts * 1000).getDay(), the host clock taken as UTC (0 = Sunday)
DayOfWeek(timestamp) == ((timestamp \div Day) + 4) % 7

DayNames ==
    <<"Sunday", "Monday", "Tuesday", "Wednesday", "Thursday", "Friday", "Saturday">>

DayName(timestamp) == DayNames[DayOfWeek(timestamp) + 1]

\* the keys of an object filled in the order of ks: first occurrences, in order
RECURSIVE KeysInOrder(_, _)
KeysInOrder(ks, seen) ==
    IF ks = <<>> THEN <<>>
    ELSE IF Head(ks) \in seen THEN KeysInOrder(Tail(ks), seen)
    ELSE <<Head(ks)>> \o KeysInOrder(Tail(ks), seen \cup {Head(ks)})

\* the efficiencies pushed under key k: the forEach loops of analyzeTimePatterns
\* pair the drive at an index with the data point at the same index
RECURSIVE BucketOf(_, _, _, _, _)
BucketOf(ds, dataPoints, KeyOf(_), k, index) ==
    IF index > Len(ds) THEN <<>>
    ELSE (IF KeyOf(ds[index]) = k /\ index <= Len(dataPoints)
          THEN <<dataPoints[index].efficiency_kwh_per_100mi>> ELSE <<>>)
         \o BucketOf(ds, dataPoints, KeyOf, k, index + 1)

\* the scan for the key with the lowest average among buckets of at least
\* minSamples entries; acc = [key, eff] with eff the lowest average so far
RECURSIVE ScanBest(_, _, _, _, _)
ScanBest(keys, Bucket(_), minSamples, i, acc) ==
    IF i > Len(keys) THEN acc
    ELSE LET efficiencies == Bucket(keys[i])
             avgEfficiency == average(efficiencies)
         IN  IF Len(efficiencies) >= minSamples
                /\ (~acc.eff.fin \/ avgEfficiency < acc.eff.val)
             THEN ScanBest(keys, Bucket, minSamples, i + 1,
                           [key |-> keys[i], eff |-> Fin(avgEfficiency)])
             ELSE ScanBest(keys, Bucket, minSamples, i + 1, acc)

\* the scan for the key with the highest average, starting from 0
RECURSIVE ScanWorst(_, _, _, _)
ScanWorst(keys, Bucket(_), i, acc) ==
    IF i > Len(keys) THEN acc
    ELSE LET efficiencies == Bucket(keys[i])
             avgEfficiency == average(efficiencies)
         IN  IF Len(efficiencies) > 0 /\ avgEfficiency > acc.eff
             THEN ScanWorst(keys, Bucket, i + 1, [key |-> keys[i], eff |-> avgEfficiency])
             ELSE ScanWorst(keys, Bucket, i + 1, acc)

\* `${h === 0 ? 12 : h > 12 ? h - 12 : h}${h < 12 ? 'AM' : 'PM'}`
FormatHour(h) ==
    <<(IF h = 0 THEN 12 ELSE IF h > 12 THEN h - 12 ELSE h),
      (IF h < 12 THEN "AM" ELSE "PM")>>

UnknownTime == <<0, "Unknown">>

analyzeTimePatterns(ds, dataPoints) ==
    LET DayKey(d)    == DayName(d.started_at)
        HourKey(d)   == HourOf(d.started_at)
        dayKeys      == KeysInOrder([i \in 1..Len(ds) |-> DayKey(ds[i])], {})
        DayBucket(k) == BucketOf(ds, dataPoints, DayKey, k, 1)
        \* integer-like keys of an object are enumerated in ascending order
        hourKeys     == SelectSeq([h \in 1..24 |-> h - 1],
                                  LAMBDA h : \E i \in 1..Len(ds) : HourKey(ds[i]) = h)
        HourBucket(k) == BucketOf(ds, dataPoints, HourKey, k, 1)
        best      == ScanBest(dayKeys, DayBucket, 1, 1, [key |-> "Unknown", eff |-> Infinity])
        worst     == ScanWorst(dayKeys, DayBucket, 1, [key |-> "Unknown", eff |-> 0])
        bestHour  == ScanBest(hourKeys, HourBucket, 2, 1, [key |-> -1, eff |-> Infinity])
    IN  [ best_day_of_week  |-> best.key,
          worst_day_of_week |-> worst.key,
          best_time_of_day  |-> IF bestHour.key = -1 THEN UnknownTime
                                ELSE FormatHour(bestHour.key) ]

analyzeEfficiencyFactors(ds, dataPoints) ==
    LET IsHot(dp)     == dp.weather_factor = "hot"
        IsCold(dp)    == dp.weather_factor = "cold"
        IsMild(dp)    == dp.weather_factor = "mild"
        IsHighway(dp) == dp.highway_percentage > 50 * 45
        IsCity(dp)    == dp.highway_percentage <= 50 * 45
        hotData  == SelectSeq(dataPoints, IsHot)
        coldData == SelectSeq(dataPoints, IsCold)
        mildData == SelectSeq(dataPoints, IsMild)
        mildAvg  == IF Len(mildData) > 0 THEN average(Efficiencies(mildData)) ELSE 0
        hotAvg   == IF Len(hotData) > 0 THEN average(Efficiencies(hotData)) ELSE mildAvg
        coldAvg  == IF Len(coldData) > 0 THEN average(Efficiencies(coldData)) ELSE mildAvg
        highwayData == SelectSeq(dataPoints, IsHighway)
        cityData    == SelectSeq(dataPoints, IsCity)
    IN  [ weather_impact |->
            [ hot_weather_penalty  |-> IF mildAvg > 0
                                       THEN Frac((hotAvg - mildAvg) * 100, mildAvg)
                                       ELSE Frac(0, 1),
              cold_weather_penalty |-> IF mildAvg > 0
                                       THEN Frac((coldAvg - mildAvg) * 100, mildAvg)
                                       ELSE Frac(0, 1),
              optimal_temp_range   |-> "65-75F" ],
          speed_impact |->
            [ highway_efficiency  |-> IF Len(highwayData) > 0
                                      THEN average(Efficiencies(highwayData)) ELSE 0,
              city_efficiency     |-> IF Len(cityData) > 0
                                      THEN average(Efficiencies(cityData)) ELSE 0,
              optimal_speed_range |-> "45-65 mph" ],
          time_patterns |-> analyzeTimePatterns(ds, dataPoints) ]

\* x > n for a fraction x with a positive denominator
FracGt(x, n) == x.num > n * x.den

Cond(c, items) == IF c THEN items ELSE <<>>

generateInsights(trends, factors) ==
    Cond(trends.weekly.confidence # "low" /\ trends.weekly.trend_direction = "improving",
         <<"weekly efficiency improved">>)
    \o Cond(trends.weekly.confidence # "low" /\ trends.weekly.trend_direction = "declining",
            <<"weekly efficiency declined">>)
    \o Cond(FracGt(factors.weather_impact.cold_weather_penalty, 15), <<"cold weather impact">>)
    \o Cond(FracGt(factors.weather_impact.hot_weather_penalty, 10), <<"hot weather impact">>)
    \o (LET hw   == factors.speed_impact.highway_efficiency
            city == factors.speed_impact.city_efficiency
        IN  Cond(hw > 0 /\ city > 0 /\ Abs(hw - city) > 300,
                 IF hw - city > 0 THEN <<"city more efficient">>
                 ELSE <<"highway more efficient">>))
    \o Cond(/\ factors.time_patterns.best_day_of_week # "Unknown"
            /\ factors.time_patterns.worst_day_of_week # "Unknown",
            <<"most and least efficient day">>)
    \o Cond(/\ trends.monthly.confidence = "high"
            /\ trends.monthly.trend_direction = "improving",
            <<"monthly improvement">>)

generateRecommendations(trends, factors) ==
    Cond(trends.weekly.trend_direction = "declining" /\ trends.weekly.confidence # "low",
         <<"check tire pressure", "use eco mode">>)
    \o Cond(FracGt(factors.weather_impact.cold_weather_penalty, 20),
            <<"pre-condition cabin", "expect reduced range">>)
    \o Cond(FracGt(factors.weather_impact.hot_weather_penalty, 15),
            <<"park in shade", "use seat heaters">>)
    \o Cond(factors.speed_impact.highway_efficiency
               > factors.speed_impact.city_efficiency + 500,
            <<"reduce highway speeds", "use cruise control">>)
    \o <<"maintain following distance", "monitor efficiency display">>
    \o Cond(factors.time_patterns.best_day_of_week # "Unknown",
            <<"schedule trips on best day">>)

InsufficientEfficiencyData ==
    "Insufficient driving data for trend analysis (minimum 5 drives required)"

EfficiencyEmptyAnalysis(message) ==
    LET emptyTrend == [ period           |-> "N/A",
                        trend_direction  |-> "stable",
                        trend_percentage |-> Frac(0, 1),
                        avg_efficiency   |-> 0,
                        best_efficiency  |-> Fin(0),
                        worst_efficiency |-> Fin(0),
                        confidence       |-> "low" ]
    IN  [ current_period |->
            [ avg_efficiency   |-> 0,
              total_miles      |-> 0,
              total_drives     |-> 0,
              efficiency_range |-> [best |-> Fin(0), worst |-> Fin(0)] ],
          trends |-> [weekly |-> emptyTrend, monthly |-> emptyTrend, seasonal |-> emptyTrend],
          factors_analysis |->
            [ weather_impact |-> [ hot_weather_penalty  |-> Frac(0, 1),
                                   cold_weather_penalty |-> Frac(0, 1),
                                   optimal_temp_range   |-> "Unknown" ],
              speed_impact   |-> [ highway_efficiency  |-> 0,
                                   city_efficiency     |-> 0,
                                   optimal_speed_range |-> "Unknown" ],
              time_patterns  |-> [ best_day_of_week  |-> "Unknown",
                                   worst_day_of_week |-> "Unknown",
                                   best_time_of_day  |-> UnknownTime ] ],
          recommendations |-> <<message>>,
          insights        |-> <<>> ]

\* a guard that lets a list of 4 drives through
EnoughEfficiencyDrivesFour(ds) == Len(ds) >= MinEfficiencyDrives - 1

\* the complement of `drives.length < 5`
EnoughEfficiencyDrives(ds) == Len(ds) >= MinEfficiencyDrives

\* analyzeEfficiencyTrends: the analysis together with the caller's list as
\* the call leaves it (drives.sort sorts the argument in place)
analyzeEfficiencyTrends(ds, nowSecs) ==
    IF ~EnoughEfficiencyDrives(ds)
    THEN [result |-> EfficiencyEmptyAnalysis(InsufficientEfficiencyData), drives |-> ds]
    ELSE LET sortedDrives == SortByStart(ds)
             dataPoints   == convertToDataPoints(sortedDrives)
             trends       == calculateTrends(dataPoints, nowSecs)
             factors      == analyzeEfficiencyFactors(sortedDrives, dataPoints)
         IN  [ result |->
                 [ current_period   |-> calculateCurrentPeriodStats(dataPoints),
                   trends           |-> trends,
                   factors_analysis |-> factors,
                   recommendations  |-> generateRecommendations(trends, factors),
                   insights         |-> generateInsights(trends, factors) ],
               drives |-> sortedDrives ]

(***************************************************************************)
(* Strings.                                                                *)
(***************************************************************************)
\* UTF-16 code units of the characters location labels use
CodeTable ==
    { <<" ", 32>>, <<",", 44>>, <<"1", 49>>, <<"2", 50>>, <<"3", 51>>,
      <<"A", 65>>, <<"B", 66>>, <<"T", 84>>, <<"U", 85>>,
      <<"a", 97>>, <<"e", 101>>, <<"l", 108>>, <<"s", 115>> }

CharCode(c) == (CHOOSE p \in CodeTable : p[1] = c)[2]

\* a < b in the order of Array.prototype.sort without comparator
RECURSIVE StrLess(_, _)
StrLess(a, b) ==
    IF b = <<>> THEN FALSE
    ELSE IF a = <<>> THEN TRUE
    ELSE IF Head(a) = Head(b) THEN StrLess(Tail(a), Tail(b))
    ELSE CharCode(Head(a)) < CharCode(Head(b))

\* String.prototype.split(sep) for a one-character separator
RECURSIVE SplitFrom(_, _, _)
SplitFrom(str, sep, cur) ==
    IF str = <<>> THEN <<cur>>
    ELSE IF Head(str) = sep THEN <<cur>> \o SplitFrom(Tail(str), sep, <<>>)
    ELSE SplitFrom(Tail(str), sep, Append(cur, Head(str)))

Split(str, sep) == SplitFrom(str, sep, <<>>)

\* String.prototype.trim
RECURSIVE TrimStart(_)
TrimStart(str) ==
    IF str # <<>> /\ Head(str) = " " THEN TrimStart(Tail(str)) ELSE str

Trim(str) == Reverse(TrimStart(Reverse(TrimStart(str))))

(***************************************************************************)
(* CommuteAnalyzer                                                         *)
(***************************************************************************)
\* MIN_ROUTE_FREQUENCY
MinRouteFrequency == 3

MinCommuteDrives == 10

\* HOME_RATE_PER_KWH, cents
CommuteHomeRate == 13

WeekSeconds == 7 * 24 * 3600

normalizeLocation(location) ==
    LET parts == Split(location, ",")
    IN  IF Len(parts) >= 3
        THEN Trim(parts[Len(parts) - 2]) \o <<",", " ">> \o Trim(parts[Len(parts) - 1])
        ELSE location

\* [start, end].sort().join(' <-> '); the arrow is kept as one character
generateRouteId(startLocation, endLocation) ==
    LET start == normalizeLocation(startLocation)
        end   == normalizeLocation(endLocation)
    IN  IF StrLess(end, start)
        THEN end \o <<" ", "<->", " ">> \o start
        ELSE start \o <<" ", "<->", " ">> \o end

RouteIdOf(drive) == generateRouteId(drive.starting_location, drive.ending_location)

\* groupDrivesByRoute: the Map's entries, in insertion order of their keys
groupDrivesByRoute(ds) ==
    LET keys == KeysInOrder([i \in 1..Len(ds) |-> RouteIdOf(ds[i])], {})
    IN  [k \in 1..Len(keys) |->
            [ routeId |-> keys[k],
              drives  |-> SelectSeq(ds, LAMBDA d : RouteIdOf(d) = keys[k]) ]]

\* efficiency of a drive as analyzeRoute computes it; 0 on a zero distance
RouteEfficiencies(ds) ==
    SelectSeq([i \in 1..Len(ds) |-> DriveEfficiency(ds[i])],
              LAMBDA e : e > 0 /\ e < 50000)

calculateAvgEfficiencyForDrives(ds) == average(RouteEfficiencies(ds))

\* calculateEfficiencyTrend; sorted is the group after drives.sort
calculateEfficiencyTrend(ds) ==
    IF Len(ds) < 6 THEN "stable"
    ELSE LET sortedDrives == SortByStart(ds)
             recentDrives == SubSeq(sortedDrives, Len(ds) - 5, Len(ds))
             olderDrives  == SubSeq(sortedDrives, 1, Min2(6, Len(ds) - 6))
             recentEfficiency == calculateAvgEfficiencyForDrives(recentDrives)
             olderEfficiency  == calculateAvgEfficiencyForDrives(olderDrives)
         IN  IF Len(olderDrives) = 0 THEN "stable"
             ELSE IF olderEfficiency = 0
                  THEN \* a division by zero: NaN or -Infinity
                       (IF recentEfficiency > 0 THEN "declining" ELSE "stable")
             ELSE IF (olderEfficiency - recentEfficiency) * 100 > 5 * olderEfficiency
                  THEN "improving"
             ELSE IF (olderEfficiency - recentEfficiency) * 100 < -5 * olderEfficiency
                  THEN "declining"
             ELSE "stable"

\* calculateWeeklyFrequency: drives per week, in hundredths
calculateWeeklyFrequency(ds) ==
    IF Len(ds) = 0 THEN 0
    ELSE LET sortedDrives == SortByStart(ds)
             span == sortedDrives[Len(ds)].started_at - sortedDrives[1].started_at
         IN  IF span = 0 THEN Len(ds) * 100
             ELSE RoundDiv(Len(ds) * WeekSeconds * 100, span)

\* calculateAvgTime: the clock time of the mean start, as <<hour, minute>>
NoTime == <<-1, -1>>

calculateAvgTime(ds) ==
    IF Len(ds) = 0 THEN NoTime
    ELSE LET avgTimestamp == SumSeq([i \in 1..Len(ds) |-> ds[i].started_at]) \div Len(ds)
         IN  <<HourOf(avgTimestamp), (avgTimestamp \div 60) % 60>>

RouteTimePatterns(ds) ==
    LET Weekday(d) == DayOfWeek(d.started_at) >= 1 /\ DayOfWeek(d.started_at) <= 5
        Morning(d) == HourOf(d.started_at) >= 6 /\ HourOf(d.started_at) <= 10 /\ Weekday(d)
        Evening(d) == HourOf(d.started_at) >= 15 /\ HourOf(d.started_at) <= 19 /\ Weekday(d)
        Weekend(d) == DayOfWeek(d.started_at) = 0 \/ DayOfWeek(d.started_at) = 6
        Pattern(sel) == [count |-> Len(sel), avg_time |-> calculateAvgTime(sel)]
    IN  [ morning_commute |-> Pattern(SelectSeq(ds, Morning)),
          evening_commute |-> Pattern(SelectSeq(ds, Evening)),
          weekend         |-> Pattern(SelectSeq(ds, Weekend)) ]

\* extractCityName of generateRouteName
extractCityName(location) ==
    LET parts == Split(location, ",")
    IN  IF Len(parts) >= 2
        THEN IF Len(parts) >= 3 /\ Trim(parts[Len(parts) - 2]) # <<>>
             THEN Trim(parts[Len(parts) - 2])
             ELSE Trim(parts[1])
        ELSE Split(location, " ")[1]

generateRouteName(drive) ==
    LET startCity == extractCityName(drive.starting_location)
        endCity   == extractCityName(drive.ending_location)
    IN  IF startCity = endCity THEN startCity \o <<" ", "L", "o", "c", "a", "l">>
        ELSE startCity \o <<" ", "<->", " ">> \o endCity

analyzeRoute(routeGroup) ==
    LET ds           == routeGroup.drives
        efficiencies == RouteEfficiencies(ds)
        recentTrend  == calculateEfficiencyTrend(ds)
        \* calculateEfficiencyTrend has sorted a group of 6 or more in place
        \* before drives[0] is read
        afterTrend   == IF Len(ds) < 6 THEN ds ELSE SortByStart(ds)
    IN  [ id                           |-> routeGroup.routeId,
          name                         |-> generateRouteName(afterTrend[1]),
          from_location                |-> afterTrend[1].starting_location,
          to_location                  |-> afterTrend[1].ending_location,
          typical_distance             |-> average([i \in 1..Len(ds) |-> ds[i].odometer_distance]),
          frequency                    |-> calculateWeeklyFrequency(ds),
          avg_duration_minutes         |-> RoundDiv(SumSeq([i \in 1..Len(ds) |->
                                               ds[i].ended_at - ds[i].started_at]) * 100,
                                               Len(ds) * 60),
          avg_efficiency_kwh_per_100mi |-> average(efficiencies),
          avg_battery_used             |-> RoundDiv(SumSeq([i \in 1..Len(ds) |->
                                               ds[i].starting_battery - ds[i].ending_battery]) * 100,
                                               Len(ds)),
          best_efficiency              |-> MathMin(efficiencies),
          worst_efficiency             |-> MathMax(efficiencies),
          recent_trend                 |-> recentTrend,
          time_patterns                |-> RouteTimePatterns(ds) ]

\* calculateCommuteCost rounded to a cent, from thousandths of a mile:
\* 4 miles per kWh at the home rate
CommuteCostCents(milesThousandths) == RoundDiv(milesThousandths * CommuteHomeRate, 4000)

FracLess(a, b) == a.num * b.den < b.num * a.den

\* the dailyStats entry of one day of the week after drives.forEach
RECURSIVE DailyStats(_, _, _)
DailyStats(ds, day, acc) ==
    IF ds = <<>> THEN acc
    ELSE IF DayOfWeek(Head(ds).started_at) # day THEN DailyStats(Tail(ds), day, acc)
    ELSE LET d == Head(ds)
             n == acc.drives + 1
         IN  DailyStats(Tail(ds), day,
                 [ drives     |-> n,
                   miles      |-> acc.miles + d.odometer_distance,
                   efficiency |->
                       IF d.odometer_distance > 0
                       THEN Frac(acc.efficiency.num * (n - 1)
                                     + DriveEfficiency(d) * acc.efficiency.den,
                                 acc.efficiency.den * n)
                       ELSE acc.efficiency ])

NoDay == "N/A"

\* dailyStats.forEach from Sunday on: the best and the worst day
RECURSIVE ScanDays(_, _, _)
ScanDays(ds, day, acc) ==
    IF day > 6 THEN acc
    ELSE LET stats == DailyStats(ds, day, [drives |-> 0, miles |-> 0, efficiency |-> Frac(0, 1)])
             better == /\ stats.drives > 0
                       /\ acc.bestDay = NoDay \/ FracLess(stats.efficiency, acc.best)
                       /\ stats.efficiency.num > 0
             worse  == stats.drives > 0 /\ FracLess(acc.worst, stats.efficiency)
         IN  ScanDays(ds, day + 1,
                 [ bestDay  |-> IF better THEN DayNames[day + 1] ELSE acc.bestDay,
                   best     |-> IF better THEN stats.efficiency ELSE acc.best,
                   worstDay |-> IF worse THEN DayNames[day + 1] ELSE acc.worstDay,
                   worst    |-> IF worse THEN stats.efficiency ELSE acc.worst ])

calculateWeeklySummary(ds, routes) ==
    LET scan == ScanDays(ds, 0, [bestDay |-> NoDay, best |-> Frac(0, 1),
                                 worstDay |-> NoDay, worst |-> Frac(0, 1)])
        totalMiles == SumSeq([i \in 1..Len(ds) |-> ds[i].odometer_distance])
    IN  [ total_drives   |-> Len(ds),
          total_miles    |-> RoundDiv(totalMiles, 10),
          total_cost     |-> CommuteCostCents(totalMiles),
          avg_efficiency |-> calculateAvgEfficiencyForDrives(ds),
          best_day       |-> scan.bestDay,
          worst_day      |-> scan.worstDay ]

Recommendation(msg, route) == [msg |-> msg, route |-> route]

NotEnoughCommuteData == Recommendation("Not enough driving data to detect commute patterns", <<>>)

ProTip == Recommendation("pre-condition while plugged in", <<>>)

RECURSIVE RouteRecommendations(_)
RouteRecommendations(routes) ==
    IF routes = <<>> THEN <<>>
    ELSE LET route == Head(routes)
         IN  Cond(route.recent_trend = "declining",
                  <<Recommendation("efficiency declining recently", route.name)>>)
             \o Cond(route.avg_efficiency_kwh_per_100mi > 3000,
                     <<Recommendation("high energy usage", route.name)>>)
             \o Cond(route.frequency > 1000,
                     <<Recommendation("most frequent route", route.name)>>)
             \o RouteRecommendations(Tail(routes))

generateCommuteRecommendations(routes, summary) ==
    RouteRecommendations(routes)
    \o Cond(Len(routes) > 2, <<Recommendation("regular routes", <<>>)>>)
    \o <<ProTip>>
    \o Cond(summary.best_day # NoDay /\ summary.worst_day # NoDay,
            <<Recommendation("best and worst efficiency day", <<>>)>>)

CommuteEmptyAnalysis(message) ==
    [ routes_detected        |-> 0,
      total_commute_miles    |-> 0,
      total_commute_cost     |-> 0,
      avg_commute_efficiency |-> 0,
      routes                 |-> <<>>,
      recommendations        |-> <<message>>,
      weekly_summary         |-> [ total_drives   |-> 0,
                                   total_miles    |-> 0,
                                   total_cost     |-> 0,
                                   avg_efficiency |-> 0,
                                   best_day       |-> NoDay,
                                   worst_day      |-> NoDay ] ]

\* a filter that asks for more than MIN_ROUTE_FREQUENCY drives
IsFrequentRouteStrict(group) == Len(group.drives) > MinRouteFrequency

\* group.drives.length >= this.MIN_ROUTE_FREQUENCY
IsFrequentRoute(group) == Len(group.drives) >= MinRouteFrequency

\* the complement of `drives.length < 10`
EnoughCommuteDrives(ds) == Len(ds) >= MinCommuteDrives

calculateAvgEfficiency(routes) ==
    IF routes = <<>> THEN 0
    ELSE RoundDiv(SumSeq([i \in 1..Len(routes) |-> routes[i].avg_efficiency_kwh_per_100mi]),
                  Len(routes))

analyzeCommutes(ds) ==
    IF ~EnoughCommuteDrives(ds) THEN CommuteEmptyAnalysis(NotEnoughCommuteData)
    ELSE LET routeGroups   == groupDrivesByRoute(ds)
             frequent      == SelectSeq(routeGroups, IsFrequentRoute)
             commuteRoutes == [i \in 1..Len(frequent) |-> analyzeRoute(frequent[i])]
             weeklySummary == calculateWeeklySummary(ds, commuteRoutes)
             \* typical_distance * frequency, in ten-thousandths of a mile
             totalCommuteMiles == SumSeq([i \in 1..Len(commuteRoutes) |->
                                      commuteRoutes[i].typical_distance
                                          * commuteRoutes[i].frequency])
         IN  [ routes_detected        |-> Len(commuteRoutes),
               total_commute_miles    |-> RoundDiv(totalCommuteMiles, 100),
               total_commute_cost     |-> RoundDiv(totalCommuteMiles * CommuteHomeRate, 40000),
               avg_commute_efficiency |-> calculateAvgEfficiency(commuteRoutes),
               routes                 |-> commuteRoutes,
               recommendations        |-> generateCommuteRecommendations(commuteRoutes,
                                                                         weeklySummary),
               weekly_summary         |-> weeklySummary ]

(***************************************************************************)
(* The caller of the efficiency trend analyzer.  Its drives lie 40 days,   *)
(* 7 days and 2 days before the day the analysis runs on (day 200, read at *)
(* noon) and are given in chronological order; each used 80 or 76 battery  *)
(* points over 300 miles (20 or 19 kWh per 100 mi).                        *)
(***************************************************************************)
AnalysisDay == 200

NowChoices == { AnalysisDay * Day + 12 * Hour }

TrendSlots ==
    { (AnalysisDay - 40) * Day + 8 * Hour,
      (AnalysisDay - 7) * Day + 13 * Hour,
      (AnalysisDay - 2) * Day + 8 * Hour }

\* <<starting_battery, ending_battery, average_speed, max_speed>>
TrendEnergies == { <<90, 10, 60, 70>>, <<86, 10, 40, 50>> }

InitEfficiency ==
    /\ comp = "efficiency"
    /\ pc = "build"
    /\ drives = <<>>
    /\ SegmenterIdle
    /\ ChargingAnalyzerNew
    /\ now \in NowChoices
    /\ effResult = NoResult
    /\ commuteResult = NoResult
    /\ CostIdle
    /\ GeocodingIdle

AddTrendDrive ==
    /\ comp = "efficiency"
    /\ pc = "build"
    /\ Len(drives) < MaxTrendDrives
    /\ \E t \in TrendSlots, en \in TrendEnergies :
          /\ drives # <<>> => t >= drives[Len(drives)].started_at
          /\ drives' = Append(drives,
                 TessieDrive(Len(drives) + 1, <<t, t + 4 * Hour>>, <<en[1], en[2]>>,
                             300000, <<en[3], en[4]>>, LocOak, LocElm))
    /\ UNCHANGED <<comp, pc, segVars, chargeVars, analysisVars, costVars, geoVars>>

CallAnalyzeEfficiencyTrends ==
    /\ comp \in {"efficiency", "analysis"}
    /\ effResult = NoResult
    /\ LET r == analyzeEfficiencyTrends(drives, now)
       IN  /\ effResult' = r.result
           /\ drives' = r.drives
    /\ pc' = "analyzed"
    /\ UNCHANGED <<comp, segVars, chargeVars, now, commuteResult, costVars, geoVars>>

NextEfficiency ==
    \/ AddTrendDrive
    \/ CallAnalyzeEfficiencyTrends

SpecEfficiency == InitEfficiency /\ [][NextEfficiency]_vars

(***************************************************************************)
(* The caller of both analyzers: a history that is listed newest first,    *)
(* one drive a day at 08:00, over three routes: Oak to Elm, Elm back to    *)
(* another address of Oak's town, and a drive of no distance from a        *)
(* charger.  A history starts as a cycle through the routes and goes on    *)
(* with a few drives of any route.  The analyzers are then called, in      *)
(* either order, on that list.                                             *)
(***************************************************************************)
LocOakNeighbour == <<"3", ",", "A", ",", "T", ",", "U">>

\* <<starting_battery, ending_battery, distance, average_speed, max_speed, from, to>>
RouteTemplates ==
    << <<60, 56, 12000, 35, 50, LocOak, LocElm>>,
       <<56, 53, 12000, 60, 70, LocElm, LocOakNeighbour>>,
       <<50, 50, 0, 0, 0, LocTesla, LocOak>> >>

\* the drive at a position of the list, newest first
HistoryDrive(pos, r) ==
    LET t  == (AnalysisDay - pos) * Day + 8 * Hour
        rt == RouteTemplates[r]
    IN  TessieDrive(pos, <<t, t + 1800>>, <<rt[1], rt[2]>>, rt[3],
                    <<rt[4], rt[5]>>, rt[6], rt[7])

\* a history that cycles through the routes
BaseHistory(n) == [pos \in 1..n |-> HistoryDrive(pos, ((pos - 1) % 3) + 1)]

BaseLengths == {0, 3, 7}

InitAnalysis ==
    /\ comp = "analysis"
    /\ pc = "build"
    /\ \E n \in BaseLengths : drives = BaseHistory(n)
    /\ SegmenterIdle
    /\ ChargingAnalyzerNew
    /\ now \in NowChoices
    /\ effResult = NoResult
    /\ commuteResult = NoResult
    /\ CostIdle
    /\ GeocodingIdle

AddAnalysisDrive ==
    /\ comp = "analysis"
    /\ pc = "build"
    /\ \E n \in BaseLengths :
          /\ Len(drives) >= n
          /\ SubSeq(drives, 1, n) = BaseHistory(n)
          /\ Len(drives) < n + MaxAddedDrives
    /\ \E r \in 1..Len(RouteTemplates) :
          drives' = Append(drives, HistoryDrive(Len(drives) + 1, r))
    /\ UNCHANGED <<comp, pc, segVars, chargeVars, analysisVars, costVars, geoVars>>

CallAnalyzeCommutes ==
    /\ comp = "analysis"
    /\ commuteResult = NoResult
    /\ commuteResult' = analyzeCommutes(drives)
    /\ pc' = "analyzed"
    /\ UNCHANGED <<comp, drives, segVars, chargeVars, now, effResult, costVars, geoVars>>

NextAnalysis ==
    \/ AddAnalysisDrive
    \/ CallAnalyzeEfficiencyTrends
    \/ CallAnalyzeCommutes

SpecAnalysis == InitAnalysis /\ [][NextAnalysis]_vars

(***************************************************************************)
(* ChargingAnalyzer.learnLocations and analyzeChargingCosts                *)
(***************************************************************************)
\* the stay between drives[i - 1] and drives[i], the list taken as it is given
StayLocation(ds, i) == ds[i - 1].ending_location
StaySeconds(ds, i)  == ds[i].started_at - ds[i - 1].ended_at

\* (endHour > 20 || endHour < 6) && duration > 6
IsOvernight(ds, i) ==
    LET endHour == HourOf(ds[i - 1].ended_at)
    IN  (endHour > 20 \/ endHour < 6) /\ StaySeconds(ds, i) > 6 * 3600

\* the locationFrequency entry of a location after the loop; duration in seconds
LocationStats(ds, location) ==
    LET at == {i \in 2..Len(ds) : StayLocation(ds, i) = location}
        atSeq == SelectSeq([i \in 1..Len(ds) |-> i], LAMBDA i : i \in at)
    IN  [ count     |-> Cardinality(at),
          overnight |-> Cardinality({i \in at : IsOvernight(ds, i)}),
          duration  |-> SumSeq([k \in 1..Len(atSeq) |-> StaySeconds(ds, atSeq[k])]) ]

\* the keys of locationFrequency, in insertion order
LearnedKeys(ds) == KeysInOrder([i \in 1..(Len(ds) - 1) |-> ds[i].ending_location], {})

\* locationFrequency.forEach: the first location with the most overnight stays
RECURSIVE MostOvernight(_, _, _, _)
MostOvernight(ds, keys, maxOvernights, homeLocation) ==
    IF keys = <<>> THEN homeLocation
    ELSE LET overnight == LocationStats(ds, Head(keys)).overnight
         IN  IF overnight > maxOvernights
             THEN MostOvernight(ds, Tail(keys), overnight, Head(keys))
             ELSE MostOvernight(ds, Tail(keys), maxOvernights, homeLocation)

\* a work test that is satisfied from 10 visits on
IsFrequentLongVisitTen(stats) ==
    stats.count >= 10 /\ stats.duration > 6 * 3600 * stats.count

\* stats.count > 10 && stats.duration / stats.count > 6
IsFrequentLongVisit(stats) ==
    stats.count > 10 /\ stats.duration > 6 * 3600 * stats.count

\* learnLocations on analyzer state st: the state the call leaves behind
learnLocations(st, ds) ==
    LET keys         == LearnedKeys(ds)
        homeLocation == MostOvernight(ds, keys, 0, <<>>)
        home         == IF homeLocation # <<>> THEN st.home \cup {homeLocation} ELSE st.home
        work         == {keys[k] : k \in {j \in 1..Len(keys) :
                            /\ IsFrequentLongVisit(LocationStats(ds, keys[j]))
                            /\ keys[j] \notin home}}
    IN  [st EXCEPT !.home = home, !.work = st.work \cup work]

\* a number that is not one: 0 / 0
NaN == [fin |-> FALSE, val |-> 0]

\* a / b of two non-negative numbers as JavaScript divides, rounded to 1/scale
Divide(a, b, scale) ==
    IF b = 0 THEN (IF a = 0 THEN NaN ELSE Infinity)
    ELSE Fin(RoundDiv(a * scale, b))

\* the sessionsByLocation entry of a location type; cost in cents, kwh in hundredths
ByLocation(ss, type) ==
    LET of == SelectSeq(ss, LAMBDA x : x.location_type = type)
    IN  [ sessions |-> Len(of),
          cost     |-> SumSeq([i \in 1..Len(of) |-> of[i].cost_estimate]),
          kwh      |-> SumSeq([i \in 1..Len(of) |-> of[i].energy_added_kwh]) ]

IsPeakHomeSession(x) ==
    x.location_type = "home" /\ HourOf(x.started_at) >= 16 /\ HourOf(x.started_at) < 21

\* generateRecommendations of the charging analyzer; superchargerPercent is
\* its local quotient, here rounded to a percent as the message prints it
ChargingRecommendations(ss) ==
    LET totalCost           == SumSeq([i \in 1..Len(ss) |-> ss[i].cost_estimate])
        superchargerPercent == Divide(ByLocation(ss, "supercharger").cost * 100, totalCost, 1)
        peakHourSessions    == SelectSeq(ss, IsPeakHomeSession)
        \* the sum of charge_rate_kw, tenths of a kW
        chargeRates         == SumSeq([i \in 1..Len(ss) |-> ss[i].charge_rate_kw])
        found ==
            Cond(totalCost > 0 /\ ByLocation(ss, "supercharger").cost * 100 > 30 * totalCost,
                 <<"increase home charging">>)
            \o Cond(Len(peakHourSessions) > 0, <<"shift peak-hour sessions to overnight">>)
            \o Cond(chargeRates < 70 * Len(ss) /\ ByLocation(ss, "home").sessions > 0,
                    <<"consider a level 2 charger">>)
            \o Cond(ByLocation(ss, "work").sessions = 0 /\ Len(ss) > 10,
                    <<"no workplace charging detected">>)
    IN  [ superchargerPercent |-> superchargerPercent,
          recommendations     |-> IF found # <<>> THEN found
                                  ELSE <<"charging strategy is well optimized">> ]

\* calculatePotentialSavings rounded to a cent: half of the supercharger
\* energy at the rate difference to off-peak, and the peak-hour home energy
calculatePotentialSavings(ss) ==
    LET peakSessions == SelectSeq(ss, IsPeakHomeSession)
        peakKwh      == SumSeq([i \in 1..Len(peakSessions) |-> peakSessions[i].energy_added_kwh])
    IN  RoundDiv(ByLocation(ss, "supercharger").kwh * (SuperchargerRate - OffPeakRate)
                     + 2 * peakKwh * (PeakRate - OffPeakRate),
                 200)

LocationTypes == {"home", "supercharger", "public", "work", "unknown"}

analyzeChargingCosts(ss) ==
    IF Len(ss) = 0
    THEN [ total_sessions           |-> 0,
           total_cost               |-> 0,
           total_kwh                |-> 0,
           total_miles_added        |-> 0,
           average_cost_per_session |-> Fin(0),
           average_cost_per_kwh     |-> Fin(0),
           average_cost_per_mile    |-> Fin(0),
           sessions_by_location     |-> [t \in LocationTypes |->
                                            [sessions |-> 0, cost |-> 0, kwh |-> 0]],
           superchargerPercent      |-> Fin(0),
           recommendations          |-> <<"No charging sessions found in the selected period">>,
           potential_savings        |-> 0 ]
    ELSE LET totalCost  == SumSeq([i \in 1..Len(ss) |-> ss[i].cost_estimate])
             totalKwh   == SumSeq([i \in 1..Len(ss) |-> ss[i].energy_added_kwh])
             totalMiles == SumSeq([i \in 1..Len(ss) |-> ss[i].miles_added])
             recs       == ChargingRecommendations(ss)
         IN  [ total_sessions           |-> Len(ss),
               total_cost               |-> totalCost,
               total_kwh                |-> totalKwh,
               total_miles_added        |-> totalMiles,
               \* cents, cents per kWh, tenths of a cent per mile
               average_cost_per_session |-> Divide(totalCost, Len(ss), 1),
               average_cost_per_kwh     |-> Divide(totalCost, totalKwh, 100),
               average_cost_per_mile    |-> Divide(totalCost, totalMiles, 1000),
               sessions_by_location     |-> [t \in LocationTypes |-> ByLocation(ss, t)],
               superchargerPercent      |-> recs.superchargerPercent,
               recommendations          |-> recs.recommendations,
               potential_savings        |-> calculatePotentialSavings(ss) ]

(***************************************************************************)
(* The caller of the charging cost handler: a history of half-hour drives  *)
(* with a stay after each, handed over oldest first or newest first; the   *)
(* handler learns locations, detects sessions and analyzes their costs on  *)
(* one analyzer.  A history starts as one of a few fixed patterns and goes *)
(* on with a few stays of any kind.                                        *)
(***************************************************************************)
\* <<seconds of the stay before the drive, battery gained during it>>
StayChoices ==
    { <<20 * 60, 10>>, <<45 * 60, 45>>, <<2 * 3600, 10>>, <<5 * 3600, 10>>,
      <<9 * 3600, 10>>, <<9 * 3600, 2>> }

StayPlaces == {LocOak, LocElm}

\* the first drive ends at 21:00
FirstDriveStart == 20 * 3600 + 1800

\* the drive that follows the history ds after a stay, ending at `to`
StayDrive(ds, stay, to) ==
    IF ds = <<>>
    THEN TessieDrive(1, <<FirstDriveStart, FirstDriveStart + 1800>>, <<50, 40>>,
                     10000, <<30, 40>>, LocElm, to)
    ELSE LET prev == ds[Len(ds)]
             t    == prev.ended_at + stay[1]
         IN  TessieDrive(Len(ds) + 1, <<t, t + 1800>>, <<40 + stay[2], 40>>,
                         10000, <<30, 40>>, prev.ending_location, to)

RECURSIVE Extend(_, _)
Extend(ds, plan) ==
    IF plan = <<>> THEN ds
    ELSE Extend(Append(ds, StayDrive(ds, Head(plan)[1], Head(plan)[2])), Tail(plan))

\* n drives that all end at Oak, five hours apart
LongStays(n) == Extend(<<>>, [i \in 1..n |-> << <<5 * 3600, 10>>, LocOak >>])

\* n drives that all end at Oak, nine hours apart: the stays begin at 21:00,
\* 06:30, 16:00, 01:30, 11:00, 20:30, ...
Rotating(n) == Extend(<<>>, [i \in 1..n |-> << <<9 * 3600, 10>>, LocOak >>])

\* n drives of a commuter: at Oak from 21:00 for 10.5 hours, at Elm from
\* 08:00 for 12.5 hours
DayCycle(n) ==
    Extend(<<>>, [i \in 1..n |->
        IF i % 2 = 1 THEN << <<12 * 3600 + 1800, 10>>, LocOak >>
        ELSE << <<10 * 3600 + 1800, 10>>, LocElm >>])

BaseHistories == {<<>>, LongStays(6), Rotating(6), DayCycle(22)}

InitLearning ==
    /\ comp = "learning"
    /\ pc = "build"
    /\ drives \in BaseHistories
    /\ SegmenterIdle
    /\ ChargingAnalyzerNew
    /\ AnalysisIdle
    /\ CostIdle
    /\ GeocodingIdle

AddStayDrive ==
    /\ comp \in {"learning", "shared"}
    /\ pc = "build"
    /\ \E base \in BaseHistories :
          /\ Len(drives) >= Len(base)
          /\ SubSeq(drives, 1, Len(base)) = base
          /\ Len(drives) < Len(base) + MaxStayAdds
    /\ \E stay \in StayChoices, to \in StayPlaces :
          drives' = Append(drives, StayDrive(drives, stay, to))
    /\ UNCHANGED <<comp, pc, segVars, chargeVars, analysisVars, costVars, geoVars>>

\* the drive list arrives newest first
ReceiveNewestFirst ==
    /\ comp \in {"learning", "shared"}
    /\ pc = "build"
    /\ Len(drives) >= 2
    /\ drives' = Reverse(drives)
    /\ pc' = "fetched"
    /\ UNCHANGED <<comp, segVars, chargeVars, analysisVars, costVars, geoVars>>

CallLearnLocations ==
    /\ comp \in {"learning", "shared"}
    /\ pc \in {"build", "fetched"}
    /\ LET st == learnLocations(AnalyzerState, drives)
       IN  /\ homeLocations' = st.home
           /\ workLocations' = st.work
    /\ pc' = "learned"
    /\ UNCHANGED <<comp, drives, segVars, frequentLocations, sessions, calls,
                   analysisVars, costVars, geoVars>>

CallAnalyzeChargingCosts ==
    /\ comp \in {"learning", "trip", "shared"}
    /\ pc = "detected"
    /\ costAnalysis' = analyzeChargingCosts(sessions)
    /\ pc' = "analyzed"
    /\ UNCHANGED <<comp, drives, segVars, chargeVars, analysisVars, tripResult, futureResult, geoVars>>

NextLearning ==
    \/ AddStayDrive
    \/ ReceiveNewestFirst
    \/ CallLearnLocations
    \/ CallDetectChargingSessions
    \/ CallAnalyzeChargingCosts

SpecLearning == InitLearning /\ [][NextLearning]_vars

(***************************************************************************)
(* The charging cost handler called again and again without custom rates:  *)
(* every invocation works on the one shared analyzer, and a later          *)
(* invocation covers another date range, whose history starts empty and is *)
(* built from a few stays of any kind.                                     *)
(***************************************************************************)
InitShared ==
    /\ comp = "shared"
    /\ pc = "build"
    /\ drives \in BaseHistories
    /\ SegmenterIdle
    /\ ChargingAnalyzerNew
    /\ AnalysisIdle
    /\ CostIdle
    /\ GeocodingIdle

\* the handler has returned and is called for another date range
NextInvocation ==
    /\ comp = "shared"
    /\ pc \in {"detected", "analyzed"}
    /\ calls < MaxDetectCalls
    /\ drives' = <<>>
    /\ sessions' = <<>>
    /\ costAnalysis' = NoResult
    /\ pc' = "build"
    /\ UNCHANGED <<comp, segVars, homeLocations, workLocations, frequentLocations, calls,
                   analysisVars, tripResult, futureResult, geoVars>>

NextShared ==
    \/ AddStayDrive
    \/ ReceiveNewestFirst
    \/ CallLearnLocations
    \/ CallDetectChargingSessions
    \/ CallAnalyzeChargingCosts
    \/ NextInvocation

SpecShared == InitShared /\ [][NextShared]_vars

(***************************************************************************)
(* TripCalculator.  Battery levels are whole percents; one percent of the  *)
(* battery is 0.75 kWh, so energies are counted in percents and costs in   *)
(* quarters of a cent (percent * 3 * rate in cents per kWh).               *)
(***************************************************************************)
BATTERY_CAPACITY_KWH      == 75
\* cents per kWh
DEFAULT_HOME_RATE         == 13
DEFAULT_SUPERCHARGER_RATE == 28
\* cents per gallon
DEFAULT_GAS_PRICE         == 450
DEFAULT_MPG               == 30

\* the result of emptyAnalysis
TripEmptyAnalysis ==
    [ trip_summary         |-> [ distance_miles           |-> 0,
                                 duration_hours           |-> 0,
                                 battery_used_percent     |-> 0,
                                 energy_used_kwh          |-> 0,
                                 efficiency_miles_per_kwh |-> 0 ],
      cost_breakdown       |-> [ electricity_cost    |-> 0,
                                 charging_stops_cost |-> 0,
                                 total_cost          |-> 0,
                                 cost_per_mile       |-> Fin(0) ],
      comparison           |-> [ vs_gas_vehicle      |-> [ gas_cost_estimate  |-> 0,
                                                           savings            |-> 0,
                                                           savings_percentage |-> 0 ],
                                 vs_optimal_charging |-> [ optimal_cost      |-> 0,
                                                           current_cost      |-> 0,
                                                           potential_savings |-> 0 ] ],
      charging_strategy    |-> <<"No trip data available">>,
      environmental_impact |-> [ co2_saved_lbs |-> 0, trees_equivalent |-> 0 ],
      chargingCosts        |-> [ detected |-> 0, unaccounted |-> 0,
                                 home |-> 0, supercharger |-> 0 ] ]

\* seconds from the first start to the last end of the sorted drives
calculateTotalDuration(sortedDrives) ==
    IF Len(sortedDrives) = 0 THEN 0
    ELSE sortedDrives[Len(sortedDrives)].ended_at - sortedDrives[1].started_at

\* the percents the drives themselves used up
calculateTotalBatteryUsed(sortedDrives) ==
    SumSeq([i \in 1..Len(sortedDrives) |->
               Max2(0, sortedDrives[i].starting_battery - sortedDrives[i].ending_battery)])

\* batteryGained of the gap before sortedDrives[i]
TripBatteryGained(sortedDrives, i) ==
    sortedDrives[i].starting_battery - sortedDrives[i - 1].ending_battery

\* batteryGained > 2: the gap before sortedDrives[i] is costed
TripChargingOccurred(sortedDrives, i) == TripBatteryGained(sortedDrives, i) > 2

\* gapHours < 1 && batteryGained > 30
TripFastCharging(sortedDrives, i) ==
    /\ GapSeconds(sortedDrives[i - 1], sortedDrives[i]) < 3600
    /\ TripBatteryGained(sortedDrives, i) > 30

\* a rule that assumes home charging for every unaccounted percent
MostEnergyUnaccountedAny(detected, totalUsed) == detected < totalUsed

\* detectedChargingKwh < totalEnergyKwh * 0.5
MostEnergyUnaccounted(detected, totalUsed) == 2 * detected < totalUsed

\* estimateChargingCosts: the percents charged at each kind of place and the
\* three costs in quarters of a cent
estimateChargingCosts(sortedDrives, totalUsed, homeRate, superchargerRate) ==
    LET costed       == {i \in 2..Len(sortedDrives) : TripChargingOccurred(sortedDrives, i)}
        fast         == {i \in costed : TripFastCharging(sortedDrives, i)}
        gained       == [i \in 1..Len(sortedDrives) |->
                            IF i \in costed THEN TripBatteryGained(sortedDrives, i) ELSE 0]
        supercharger == SumSeq([i \in 1..Len(sortedDrives) |->
                                   IF i \in fast THEN gained[i] ELSE 0])
        homeGaps     == SumSeq(gained) - supercharger
        detected     == homeGaps + supercharger
        unaccounted  == IF MostEnergyUnaccounted(detected, totalUsed)
                        THEN totalUsed - detected ELSE 0
        home         == homeGaps + unaccounted
    IN  [ detected          |-> detected,
          unaccounted       |-> unaccounted,
          home              |-> home,
          supercharger      |-> supercharger,
          electricityCost   |-> home * 3 * homeRate,
          chargingStopsCost |-> supercharger * 3 * superchargerRate,
          totalCost         |-> home * 3 * homeRate + supercharger * 3 * superchargerRate ]

\* gas cost in cents of the distance (thousandths of a mile) at 30 mpg
calculateGasComparison(distance, gasPrice) ==
    [ gasCost        |-> RoundDiv(distance * gasPrice, 1000 * DEFAULT_MPG),
      savings        |-> 0,
      savingsPercent |-> 0 ]

\* all of the energy at 70% of the home rate, in cents
calculateOptimalCharging(totalUsed, homeRate) ==
    [ optimal |-> RoundDiv(totalUsed * 3 * homeRate * 7, 40),
      savings |-> 0 ]

generateChargingStrategy(totalUsed, costs) ==
    Cond(costs.totalCost > 0 /\ costs.chargingStopsCost * 100 > 40 * costs.totalCost,
         <<"High Supercharger usage">>)
    \o Cond(totalUsed < 80, <<"single overnight charge at home">>)
    \o << <<"Optimal starting charge", Min2(90, totalUsed + 20)>> >>
    \o Cond(costs.electricityCost > 0, <<"Schedule home charging for off-peak hours">>)

\* 19.6 lbs per gallon against 0.855 lbs per kWh, in 1/2400000 lb
calculateEnvironmentalImpact(distance, totalUsed) ==
    LET co2Saved == Max2(0, distance * 1568 - totalUsed * 1539000)
    IN  [ co2Saved        |-> RoundDiv(co2Saved, 240000),
          treesEquivalent |-> RoundDiv(co2Saved, 48 * 2400000) ]

calculateTripCost(ds, homeRate, superchargerRate, gasPrice) ==
    IF Len(ds) = 0 THEN TripEmptyAnalysis
    ELSE
    LET sortedDrives    == SortByStart(ds)
        totalDistance   == SumSeq([i \in 1..Len(ds) |-> ds[i].odometer_distance])
        totalDuration   == calculateTotalDuration(sortedDrives)
        totalUsed       == calculateTotalBatteryUsed(sortedDrives)
        chargingCosts   == estimateChargingCosts(sortedDrives, totalUsed,
                                                 homeRate, superchargerRate)
        gasComparison   == calculateGasComparison(totalDistance, gasPrice)
        optimalCharging == calculateOptimalCharging(totalUsed, homeRate)
        environmental   == calculateEnvironmentalImpact(totalDistance, totalUsed)
    IN  [ trip_summary         |->
              \* hundredths of a mile, of an hour, of a kWh and of a mile per kWh
              [ distance_miles           |-> RoundDiv(totalDistance, 10),
                duration_hours           |-> RoundDiv(totalDuration, 36),
                battery_used_percent     |-> totalUsed,
                energy_used_kwh          |-> totalUsed * BATTERY_CAPACITY_KWH,
                efficiency_miles_per_kwh |-> IF totalUsed > 0
                                             THEN RoundDiv(2 * totalDistance, 15 * totalUsed)
                                             ELSE 0 ],
          cost_breakdown       |->
              \* cents, and tenths of a cent per mile
              [ electricity_cost    |-> RoundDiv(chargingCosts.electricityCost, 4),
                charging_stops_cost |-> RoundDiv(chargingCosts.chargingStopsCost, 4),
                total_cost          |-> RoundDiv(chargingCosts.totalCost, 4),
                cost_per_mile       |-> Divide(chargingCosts.totalCost * 5, totalDistance * 2,
                                               1000) ],
          comparison           |->
              [ vs_gas_vehicle      |-> [ gas_cost_estimate  |-> gasComparison.gasCost,
                                          savings            |-> gasComparison.savings,
                                          savings_percentage |-> gasComparison.savingsPercent ],
                vs_optimal_charging |-> [ optimal_cost      |-> optimalCharging.optimal,
                                          current_cost      |-> RoundDiv(chargingCosts.totalCost, 4),
                                          potential_savings |-> optimalCharging.savings ] ],
          charging_strategy    |-> generateChargingStrategy(totalUsed, chargingCosts),
          environmental_impact |-> [ co2_saved_lbs    |-> environmental.co2Saved,
                                     trees_equivalent |-> environmental.treesEquivalent ],
          chargingCosts        |-> [ detected     |-> chargingCosts.detected,
                                     unaccounted  |-> chargingCosts.unaccounted,
                                     home         |-> chargingCosts.home,
                                     supercharger |-> chargingCosts.supercharger ] ]

\* a plan that sends the car to Superchargers from a deficit of 50 percent on
NeedsSuperchargerStopsFifty(chargeDeficit) == chargeDeficit > 50 * 60

\* the else branch of chargeDeficit <= 60; deficits are sixtieths of a percent
NeedsSuperchargerStops(chargeDeficit) == chargeDeficit > 60 * 60

\* Math.ceil(a / b) of a non-negative a
CeilDiv(a, b) == (a + b - 1) \div b

\* estimateFutureTripCost of whole miles and a whole battery percent.  The
\* trip needs distanceMiles / 3 percent and 15% more, which is
\* 23 * distanceMiles sixtieths of a percent.
estimateFutureTripCost(distanceMiles, currentBatteryPercent, homeRate, superchargerRate) ==
    LET totalBatteryNeeded == 23 * distanceMiles
        current            == 60 * currentBatteryPercent
        chargingNeeded     == totalBatteryNeeded > current
        chargeDeficit      == Max2(0, totalBatteryNeeded - current)
        superchargerStopsNeeded == CeilDiv(chargeDeficit, 50 * 60)
        toNinety           == 60 * (90 - currentBatteryPercent)
        \* cents: sixtieths of a percent * 0.75 kWh * rate / 60
        estimatedCost ==
            IF ~chargingNeeded THEN 0
            ELSE IF ~NeedsSuperchargerStops(chargeDeficit)
                 THEN RoundDiv(chargeDeficit * homeRate, 80)
                 ELSE RoundDiv(toNinety * homeRate
                                   + (chargeDeficit - toNinety) * superchargerRate, 80)
        strategy ==
            IF ~chargingNeeded THEN <<"No charging needed", currentBatteryPercent>>
            ELSE IF ~NeedsSuperchargerStops(chargeDeficit)
                 THEN <<"Charge at home before departure", RoundDiv(current + chargeDeficit, 60)>>
                 ELSE <<"Charge to 90% at home, then Supercharger stops",
                        superchargerStopsNeeded>>
    IN  [ estimated_cost           |-> estimatedCost,
          charging_needed          |-> chargingNeeded,
          recommended_charge_level |-> Min2(100, RoundDiv(current + chargeDeficit, 60)),
          charging_stops_needed    |-> superchargerStopsNeeded,
          strategy                 |-> strategy ]

(***************************************************************************)
(* The callers of the trip calculator: the calculate_trip_cost handler on  *)
(* a list of half-hour drives, the charging cost handler's detector and    *)
(* analysis on the same list, and the estimate_future_trip handler.  The   *)
(* gaps after the first timing are 45 minutes, 2 hours and 5 hours.        *)
(***************************************************************************)
MaxTripDrives == 3

TripTimings ==
    { <<0, 1800>>, <<4500, 6300>>, <<13500, 15300>>, <<33300, 35100>> }

\* <<starting_battery, ending_battery, odometer_distance>>
TripEnergies == { <<80, 60, 20000>>, <<95, 85, 0>>, <<63, 35, 0>> }

\* planned distances in miles and battery levels in percent
TripDistances  == {0, 100, 300, 400}
BatteryLevels  == {10, 55, 60, 65, 100}

NoDrivesFound == [error |-> "No drives found in the specified period"]

InitTrip ==
    /\ comp = "trip"
    /\ pc = "build"
    /\ drives = <<>>
    /\ SegmenterIdle
    /\ ChargingAnalyzerNew
    /\ AnalysisIdle
    /\ CostIdle
    /\ GeocodingIdle

AddTripDrive ==
    /\ comp = "trip"
    /\ pc = "build"
    /\ tripResult = NoResult
    /\ Len(drives) < MaxTripDrives
    /\ \E tm \in TripTimings, en \in TripEnergies :
          drives' = Append(drives,
                           TessieDrive(Len(drives) + 1, tm, <<en[1], en[2]>>, en[3],
                                       <<40, 50>>, LocOak, LocElm))
    /\ UNCHANGED <<comp, pc, segVars, chargeVars, analysisVars, costVars, geoVars>>

\* the calculate_trip_cost handler with the default rates and gas price
CallCalculateTripCost ==
    /\ comp = "trip"
    /\ tripResult = NoResult
    /\ IF Len(drives) = 0
       THEN tripResult' = NoDrivesFound
       ELSE LET analysis == calculateTripCost(drives, DEFAULT_HOME_RATE,
                                              DEFAULT_SUPERCHARGER_RATE, DEFAULT_GAS_PRICE)
                gasCost  == analysis.comparison.vs_gas_vehicle.gas_cost_estimate
                evCost   == analysis.cost_breakdown.total_cost
            IN  tripResult' =
                    [ analysis        |-> analysis,
                      savings         |-> gasCost - evCost,
                      \* tenths of a percent
                      savingsPercent  |-> IF gasCost > 0
                                          THEN RoundDiv((gasCost - evCost) * 1000, gasCost)
                                          ELSE 0,
                      optimalSavings  |->
                          evCost - analysis.comparison.vs_optimal_charging.optimal_cost ]
    /\ UNCHANGED <<comp, pc, drives, segVars, chargeVars, analysisVars,
                   costAnalysis, futureResult, geoVars>>

\* the estimate_future_trip handler with the default rates
CallEstimateFutureTripCost ==
    /\ comp = "trip"
    /\ futureResult = NoResult
    /\ drives = <<>>
    /\ \E distance_miles \in TripDistances, current_battery_percent \in BatteryLevels :
          LET estimate == estimateFutureTripCost(distance_miles, current_battery_percent,
                                                 DEFAULT_HOME_RATE, DEFAULT_SUPERCHARGER_RATE)
          IN  futureResult' =
                  [ distance_miles          |-> distance_miles,
                    current_battery_percent |-> current_battery_percent,
                    estimate                |-> estimate,
                    \* tenths of a cent per mile
                    cost_per_mile           |-> Divide(estimate.estimated_cost,
                                                       distance_miles, 10) ]
    /\ pc' = "estimated"
    /\ UNCHANGED <<comp, drives, segVars, chargeVars, analysisVars,
                   costAnalysis, tripResult, geoVars>>

NextTrip ==
    \/ AddTripDrive
    \/ CallCalculateTripCost
    \/ CallEstimateFutureTripCost
    \/ CallDetectChargingSessions
    \/ CallAnalyzeChargingCosts

SpecTrip == InitTrip /\ [][NextTrip]_vars

(***************************************************************************)
(* The caller of the trip segmenter: it builds a drive list, merges it,    *)
(* merges it a second time and merges a reversed copy.                     *)
(***************************************************************************)
InitMerge ==
    /\ comp = "merge"
    /\ pc = "build"
    /\ drives = <<>>
    /\ merged = NoResult
    /\ mergedAgain = NoResult
    /\ mergedRev = NoResult
    /\ ChargingAnalyzerNew
    /\ AnalysisIdle
    /\ CostIdle
    /\ GeocodingIdle

AddMergeDrive ==
    /\ comp = "merge"
    /\ pc = "build"
    /\ Len(drives) < MaxDrives
    /\ \E tm \in MergeTimings, en \in MergeEnergies :
          drives' = Append(drives, MkDrive(Len(drives) + 1, tm, en))
    /\ UNCHANGED <<comp, pc, merged, mergedAgain, mergedRev, chargeVars, analysisVars, costVars, geoVars>>

CallMergeDrives ==
    /\ comp = "merge"
    /\ pc = "build"
    /\ merged' = mergeDrives(drives)
    /\ pc' = "merged"
    /\ UNCHANGED <<comp, drives, mergedAgain, mergedRev, chargeVars, analysisVars, costVars, geoVars>>

CallMergeDrivesAgain ==
    /\ comp = "merge"
    /\ pc = "merged"
    /\ mergedAgain' = mergeDrives(drives)
    /\ pc' = "again"
    /\ UNCHANGED <<comp, drives, merged, mergedRev, chargeVars, analysisVars, costVars, geoVars>>

CallMergeDrivesReversed ==
    /\ comp = "merge"
    /\ pc = "again"
    /\ mergedRev' = mergeDrives(Reverse(drives))
    /\ pc' = "done"
    /\ UNCHANGED <<comp, drives, merged, mergedAgain, chargeVars, analysisVars, costVars, geoVars>>

\* the charging detector of a new analyzer run on the drives that were merged
CallDetectOnMergedDrives ==
    /\ comp = "merge"
    /\ pc = "done"
    /\ calls < MaxDetectCalls
    /\ LET r == detectChargingSessions(AnalyzerState, drives)
       IN  /\ sessions' = r.sessions
           /\ homeLocations' = r.st.home
           /\ workLocations' = r.st.work
           /\ frequentLocations' = r.st.freq
    /\ calls' = calls + 1
    /\ pc' = "detected"
    /\ UNCHANGED <<comp, drives, segVars, analysisVars, costVars, geoVars>>

NextMerge ==
    \/ AddMergeDrive
    \/ CallMergeDrives
    \/ CallMergeDrivesAgain
    \/ CallMergeDrivesReversed
    \/ CallDetectOnMergedDrives

SpecMerge == InitMerge /\ [][NextMerge]_vars

(***************************************************************************)
(* Properties of the trip segmenter.                                       *)
(***************************************************************************)
MergeCalled == comp = "merge" /\ pc \in {"merged", "again", "done"}

\* the raw drive behind an id: AddMergeDrive numbers the drives by position
DriveOf(id) == drives[id]

\* originalDriveIds of the merged drives, concatenated in output order
IdsOf(m) == Flatten([g \in 1..Len(m) |-> m[g].originalDriveIds])

MembersOf(md) == [i \in 1..Len(md.originalDriveIds) |-> DriveOf(md.originalDriveIds[i])]

\* every input drive exactly once, in non-decreasing started_at order
CoversInTimeOrder(m) ==
    LET ids == IdsOf(m)
    IN  /\ Len(ids) = Len(drives)
        /\ {ids[i] : i \in 1..Len(ids)} = 1..Len(drives)
        /\ \A i, j \in 1..Len(ids) :
              i < j => DriveOf(ids[i]).started_at <= DriveOf(ids[j]).started_at

InputDistance == SumSeq([i \in 1..Len(drives) |-> drives[i].odometer_distance])

\* sum of total_distance, converted from hundredths to thousandths of a mile
MergedDistance(m) == 10 * SumSeq([g \in 1..Len(m) |-> m[g].total_distance])

\* C1 as stated: mergeDrives of a non-empty list covers every input drive
\* exactly once in non-decreasing started_at order, and the merged drives'
\* total_distance adds up to exactly the sum of the inputs' odometer_distance.
C1_Original ==
    (MergeCalled /\ Len(drives) > 0) =>
        /\ CoversInTimeOrder(merged)
        /\ MergedDistance(merged) = InputDistance

\* C1 (amended): mergeDrives of a non-empty list covers every input drive
\* exactly once in non-decreasing started_at order, and each merged drive's
\* total_distance is the sum of its members' odometer_distance rounded to
\* the nearest hundredth of a mile (halves upwards), so it lies within
\* 0.005 mi of that sum.
C1_CoverageAndRoundedDistance ==
    (MergeCalled /\ Len(drives) > 0) =>
        /\ CoversInTimeOrder(merged)
        /\ \A g \in 1..Len(merged) :
              LET members == MembersOf(merged[g])
                  exact   == SumSeq([i \in 1..Len(members) |-> members[i].odometer_distance])
              IN  /\ 10 * merged[g].total_distance - exact >= -4
                  /\ 10 * merged[g].total_distance - exact <= 5

\* an unsorted three-drive input whose merged distances are rounded
C1_Witness ==
    /\ MergeCalled
    /\ Len(drives) = 3
    /\ drives[1].started_at > drives[2].started_at
    /\ Len(merged) = 2
    /\ MergedDistance(merged) # InputDistance

\* the index of the merged drive that holds position i of the concatenated ids
RECURSIVE GroupOfPos(_, _, _)
GroupOfPos(m, g, i) ==
    IF i <= Len(m[g].originalDriveIds) THEN g
    ELSE GroupOfPos(m, g + 1, i - Len(m[g].originalDriveIds))

MergeRule(prev, next) ==
    \/ next.started_at - prev.ended_at < 420
    \/ next.starting_battery - prev.ending_battery > 5

\* C2: two drives adjacent in start-time order are in the same merged drive
\* exactly when the gap is under 7 minutes or the battery rose by more than
\* 5 points across it; a 5-minute gap merges, a 30-minute gap without a
\* battery increase separates.
C2_MergeIffRule ==
    MergeCalled =>
        LET ids == IdsOf(merged)
        IN  \A i \in 1..(Len(ids) - 1) :
              LET prev == DriveOf(ids[i])
                  next == DriveOf(ids[i + 1])
                  same == GroupOfPos(merged, 1, i) = GroupOfPos(merged, 1, i + 1)
              IN  /\ same <=> MergeRule(prev, next)
                  /\ next.started_at - prev.ended_at = 300 => same
                  /\ (/\ next.started_at - prev.ended_at = 1800
                      /\ next.starting_battery <= prev.ending_battery) => ~same

\* a 5-minute gap merged and a 30-minute gap without battery increase kept apart
C2_Witness ==
    /\ MergeCalled
    /\ Len(merged) = 2
    /\ Len(merged[1].originalDriveIds) = 2
    /\ LET a == DriveOf(merged[1].originalDriveIds[1])
           b == DriveOf(merged[1].originalDriveIds[2])
           c == DriveOf(merged[2].originalDriveIds[1])
       IN  /\ b.started_at - a.ended_at = 300
           /\ b.starting_battery <= a.ending_battery
           /\ c.started_at - b.ended_at = 1800
           /\ c.starting_battery <= b.ending_battery

DistinctStarts ==
    \A i, j \in 1..Len(drives) :
        i # j => drives[i].started_at # drives[j].started_at

\* C5 as stated: for every input list, also one in which drives share a
\* started_at, a second mergeDrives call and a call on a reversed copy give
\* the output of the first call.
C5_Original ==
    (comp = "merge" /\ pc = "done") =>
        /\ mergedAgain = merged
        /\ mergedRev = merged

\* C5 (amended): a second mergeDrives call on the same list always gives the
\* same output, and a call on a reversed copy gives the same output whenever
\* the drives' started_at are pairwise distinct.
C5_IdempotentAndOrderFree ==
    (comp = "merge" /\ pc = "done") =>
        /\ mergedAgain = merged
        /\ DistinctStarts => mergedRev = merged

\* three drives with distinct start times, given out of order
C5_Witness ==
    /\ comp = "merge" /\ pc = "done"
    /\ Len(drives) = 3
    /\ DistinctStarts
    /\ drives[1].started_at > drives[2].started_at
    /\ mergedRev = merged
    /\ Len(merged) = 2

\* pairs of consecutive members of a merged drive
PairsOf(md) == 1..(Len(md.originalDriveIds) - 1)

StopMatches(st, earlier, later) ==
    /\ st.location = earlier.ending_location
    /\ st.started_at = earlier.ended_at
    /\ st.ended_at = later.started_at

\* C6 as stated: a merged drive of n members carries exactly n-1 stops, one
\* per pair of consecutive members (location = the earlier member's
\* ending_location, window = earlier.ended_at..later.started_at), whatever
\* the gap length, zero and negative gaps included.
C6_Original ==
    MergeCalled =>
        \A g \in 1..Len(merged) :
            LET members == MembersOf(merged[g])
            IN  /\ Len(merged[g].stops) = Len(members) - 1
                /\ \A i \in PairsOf(merged[g]) :
                      StopMatches(merged[g].stops[i], members[i], members[i + 1])

\* the pairs of consecutive members separated by a positive gap, in order
RECURSIVE PositivePairs(_, _)
PositivePairs(members, i) ==
    IF i >= Len(members) THEN <<>>
    ELSE (IF members[i + 1].started_at > members[i].ended_at THEN <<i>> ELSE <<>>)
         \o PositivePairs(members, i + 1)

\* C6 (amended): a merged drive carries one stop for each pair of consecutive
\* members separated by a gap of positive length, in member order, with
\* location = the earlier member's ending_location and window =
\* earlier.ended_at..later.started_at; touching or overlapping members
\* (gap zero or negative) get no stop.
C6_StopPerPositiveGap ==
    MergeCalled =>
        \A g \in 1..Len(merged) :
            LET members == MembersOf(merged[g])
                pairs   == PositivePairs(members, 1)
            IN  /\ Len(merged[g].stops) = Len(pairs)
                /\ \A k \in 1..Len(pairs) :
                      StopMatches(merged[g].stops[k], members[pairs[k]], members[pairs[k] + 1])

\* a merged drive of three members: one touching pair, one pair 5 minutes apart
C6_Witness ==
    /\ MergeCalled
    /\ \E g \in 1..Len(merged) :
          LET members == MembersOf(merged[g])
          IN  /\ Len(members) = 3
              /\ members[2].started_at = members[1].ended_at
              /\ members[3].started_at > members[2].ended_at
              /\ Len(merged[g].stops) = 1

AllStops(m) == Flatten([g \in 1..Len(m) |-> m[g].stops])

\* C7: no stop of a merged drive is 'excluded': every recorded stop is
\* 'charging' or 'short', and a 'short' stop lasts under 7 minutes.
C7_NoExcludedStop ==
    MergeCalled =>
        \A k \in 1..Len(AllStops(merged)) :
            LET st == AllStops(merged)[k]
            IN  /\ st.stop_type \in {"charging", "short"}
                /\ st.stop_type = "short" => st.ended_at - st.started_at < 420

\* a charging stop of 25 minutes or more next to a short stop
C7_Witness ==
    /\ MergeCalled
    /\ \E g \in 1..Len(merged) :
          /\ Len(merged[g].stops) = 2
          /\ merged[g].stops[1].stop_type = "short"
          /\ merged[g].stops[2].stop_type = "charging"
          /\ merged[g].stops[2].ended_at - merged[g].stops[2].started_at >= 1500

(***************************************************************************)
(* Properties of the charging session detector.                            *)
(***************************************************************************)
DetectCalled == comp = "charging" /\ pc = "detected"

\* positions i of the start-time order whose pair (i, i + 1) gained over 2 points
RECURSIVE GainingPairs(_, _)
GainingPairs(sorted, i) ==
    IF i >= Len(sorted) THEN <<>>
    ELSE (IF sorted[i + 1].starting_battery - sorted[i].ending_battery > 2
          THEN <<i>> ELSE <<>>)
         \o GainingPairs(sorted, i + 1)

\* C3: detectChargingSessions emits exactly one session for each pair of
\* drives adjacent in start-time order whose battery gain exceeds 2, and
\* none for any other pair; a session spans prev.ended_at..next.started_at,
\* lies at prev.ending_location and has ending_battery > starting_battery.
C3_OneSessionPerGainingPair ==
    DetectCalled =>
        LET sorted == SortByStart(drives)
            pairs  == GainingPairs(sorted, 1)
        IN  /\ Len(sessions) = Len(pairs)
            /\ \A k \in 1..Len(pairs) :
                  LET prev == sorted[pairs[k]]
                      next == sorted[pairs[k] + 1]
                      se   == sessions[k]
                  IN  /\ se.id = <<"charge", prev.id, next.id>>
                      /\ se.started_at = prev.ended_at
                      /\ se.ended_at = next.started_at
                      /\ se.location = prev.ending_location
                      /\ se.ending_battery > se.starting_battery

\* an unsorted list with one pair gaining 7 points and one gaining only 2
C3_Witness ==
    /\ DetectCalled
    /\ Len(drives) = 3
    /\ drives[1].started_at > drives[3].started_at
    /\ Len(sessions) = 1
    /\ sessions[1].ending_battery - sessions[1].starting_battery = 7
    /\ \E i \in 1..2 :
          SortByStart(drives)[i + 1].starting_battery
              - SortByStart(drives)[i].ending_battery = 2

NothingLearned == homeLocations = {} /\ workLocations = {}

\* a session of 3 hours across which the battery rose from 40% to 85%
ThreeHours40To85(se) ==
    /\ se.ended_at - se.started_at = 3 * 3600
    /\ se.starting_battery = 40
    /\ se.ending_battery = 85

\* C4 as stated: with no learned locations, a 3-hour gap with the battery
\* rising from 40% to 85% is classified home or work, never public or unknown.
C4_Original ==
    (DetectCalled /\ NothingLearned) =>
        \A k \in 1..Len(sessions) :
            ThreeHours40To85(sessions[k]) =>
                sessions[k].location_type \in {"home", "work"}

\* C4 (amended): with no learned locations, a 3-hour gap with the battery
\* rising from 40% to 85% is classified 'public' (180 minutes lies in the
\* 30..240 minute band, below the 240-minute long-stay threshold of the
\* home/work rule), or 'supercharger' when the location label carries a
\* supercharger/tesla marker.
C4_ThreeHourGapIsPublic ==
    (DetectCalled /\ NothingLearned) =>
        \A k \in 1..Len(sessions) :
            ThreeHours40To85(sessions[k]) =>
                sessions[k].location_type =
                    (IF HasSuperchargerMarker(sessions[k].location)
                     THEN "supercharger" ELSE "public")

\* such a session at an unmarked location, next to one at a marked location
C4_Witness ==
    /\ DetectCalled /\ NothingLearned
    /\ \E k \in 1..Len(sessions) :
          /\ ThreeHours40To85(sessions[k])
          /\ sessions[k].location = LocOak
          /\ sessions[k].location_type = "public"

(***************************************************************************)
(* Properties of the efficiency trend analyzer.                            *)
(***************************************************************************)
EfficiencyAnalyzed == comp = "efficiency" /\ pc = "analyzed"

\* the efficiencies (thousandths) of the plausible drives whose UTC calendar
\* day d satisfies lo <= midnight(d) and Before(midnight(d))
WindowEfficiencies(lo, Before(_)) ==
    LET InWindow(d) ==
            /\ DriveEfficiency(d) > 0 /\ DriveEfficiency(d) < 60000
            /\ (d.started_at \div 86400) * 86400 >= lo
            /\ Before((d.started_at \div 86400) * 86400)
        inWin == SelectSeq(drives, InWindow)
    IN  [i \in 1..Len(inWin) |-> DriveEfficiency(inWin[i])]

\* the mean of xs, rounded to hundredths as avg_efficiency reports it
MeanHundredths(xs) == (2 * SumSeq(xs) + 10 * Len(xs)) \div (20 * Len(xs))

TrendAsClaimed(trend, days) ==
    LET cur  == WindowEfficiencies(now - days * 86400, LAMBDA t : t <= now)
        prev == WindowEfficiencies(now - 2 * days * 86400,
                                   LAMBDA t : t < now - days * 86400)
    IN  IF Len(cur) < 2 \/ Len(prev) < 2
        THEN trend.trend_direction = "stable" /\ trend.confidence = "low"
        ELSE LET c == MeanHundredths(cur)
                 p == MeanHundredths(prev)
             IN  /\ p > 0
                 /\ trend.trend_direction =
                       (IF 100 * (p - c) > 3 * p THEN "improving"
                        ELSE IF 100 * (c - p) > 3 * p THEN "declining"
                        ELSE "stable")
                 /\ trend.confidence =
                       (IF Len(cur) >= 5 /\ Len(prev) >= 5 THEN "high"
                        ELSE IF Len(cur) >= 3 /\ Len(prev) >= 3 THEN "medium"
                        ELSE "low")
                 /\ (Len(cur) = 3 /\ Len(prev) = 3 /\ 100 * Abs(p - c) > 3 * p) =>
                       /\ trend.trend_direction # "stable"
                       /\ trend.confidence \in {"medium", "high"}

EfficiencyCalled == comp = "analysis" /\ effResult # NoResult
CommutesCalled   == comp = "analysis" /\ commuteResult # NoResult

Members(s) == {s[i] : i \in 1..Len(s)}

EmptyTrendShape(trend) ==
    /\ trend.trend_direction = "stable"
    /\ trend.confidence = "low"
    /\ trend.trend_percentage.num = 0
    /\ trend.avg_efficiency = 0
    /\ trend.best_efficiency = Fin(0)
    /\ trend.worst_efficiency = Fin(0)

EmptyEfficiencyShape(r) ==
    /\ r.current_period.avg_efficiency = 0
    /\ r.current_period.total_miles = 0
    /\ r.current_period.total_drives = 0
    /\ r.current_period.efficiency_range = [best |-> Fin(0), worst |-> Fin(0)]
    /\ EmptyTrendShape(r.trends.weekly)
    /\ EmptyTrendShape(r.trends.monthly)
    /\ EmptyTrendShape(r.trends.seasonal)
    /\ r.factors_analysis.speed_impact.highway_efficiency = 0
    /\ r.factors_analysis.speed_impact.city_efficiency = 0
    /\ r.insights = <<>>
    /\ r.recommendations =
          <<"Insufficient driving data for trend analysis (minimum 5 drives required)">>

FullEfficiencyShape(r) ==
    /\ r.trends.weekly.period = "weekly"
    /\ r.trends.monthly.period = "monthly"
    /\ r.trends.seasonal.period = "seasonal"
    /\ "Insufficient driving data for trend analysis (minimum 5 drives required)"
          \notin Members(r.recommendations)
    /\ "maintain following distance" \in Members(r.recommendations)

EmptyCommuteShape(r) ==
    /\ r.routes_detected = 0
    /\ r.routes = <<>>
    /\ r.total_commute_miles = 0
    /\ r.total_commute_cost = 0
    /\ r.avg_commute_efficiency = 0
    /\ r.weekly_summary.total_drives = 0
    /\ r.weekly_summary.total_miles = 0
    /\ r.weekly_summary.total_cost = 0
    /\ r.weekly_summary.avg_efficiency = 0
    /\ Len(r.recommendations) = 1
    /\ r.recommendations[1].msg = "Not enough driving data to detect commute patterns"

FullCommuteShape(r) ==
    /\ r.weekly_summary.total_drives = Len(drives)
    /\ r.routes_detected = Len(r.routes)
    /\ \A i \in 1..Len(r.recommendations) :
          r.recommendations[i].msg # "Not enough driving data to detect commute patterns"
    /\ \E i \in 1..Len(r.recommendations) :
          r.recommendations[i].msg = "pre-condition while plugged in"

\* C8: analyzeEfficiencyTrends on fewer than 5 drives and analyzeCommutes on
\* fewer than 10 drives return a structured empty result (all figures zero,
\* no routes, every trend stable with low confidence) whose recommendations
\* list is the human-readable reason; on at least 5 (respectively 10)
\* drives the full analysis is run instead.
C8_EmptyBelowMinimum ==
    /\ EfficiencyCalled =>
          IF Len(drives) < 5 THEN EmptyEfficiencyShape(effResult)
          ELSE FullEfficiencyShape(effResult)
    /\ CommutesCalled =>
          IF Len(drives) < 10 THEN EmptyCommuteShape(commuteResult)
          ELSE FullCommuteShape(commuteResult)

\* both analyzers called on exactly 4 drives
C8_Witness ==
    /\ EfficiencyCalled
    /\ CommutesCalled
    /\ Len(drives) = 4
    /\ EmptyEfficiencyShape(effResult)
    /\ EmptyCommuteShape(commuteResult)

\* the unordered pair of a drive's normalized endpoints
PairOf(from, to) == {normalizeLocation(from), normalizeLocation(to)}

DrivePair(d) == PairOf(d.starting_location, d.ending_location)

\* the positions of the drives that join a pair, in either direction
Joining(pair) == {i \in 1..Len(drives) : DrivePair(drives[i]) = pair}

\* the positions of the retained routes of a pair
RoutesOfPair(pair) ==
    {k \in 1..Len(commuteResult.routes) :
        PairOf(commuteResult.routes[k].from_location,
               commuteResult.routes[k].to_location) = pair}

RetainedAsClaimed ==
    /\ \A i \in 1..Len(drives) :
          Cardinality(RoutesOfPair(DrivePair(drives[i]))) =
              (IF Cardinality(Joining(DrivePair(drives[i]))) >= 3 THEN 1 ELSE 0)
    /\ \A k \in 1..Len(commuteResult.routes) :
          \E i \in 1..Len(drives) : k \in RoutesOfPair(DrivePair(drives[i]))

\* the drives of a pair per week between its first and its last drive, in
\* hundredths; their number when they all start at the same second
PerWeek(pair) ==
    LET starts == {drives[i].started_at : i \in Joining(pair)}
        first  == CHOOSE t \in starts : \A u \in starts : t <= u
        last   == CHOOSE t \in starts : \A u \in starts : t >= u
        n      == Cardinality(Joining(pair))
    IN  IF last = first THEN n * 100
        ELSE (2 * n * 604800 * 100 + (last - first)) \div (2 * (last - first))

\* C10 as stated: for any drive list one route is retained for each pair
\* joined by at least 3 drives and none for a pair joined by fewer, and 3
\* drives between the same two locations give one route with frequency 3.
C10_Original ==
    CommutesCalled =>
        /\ RetainedAsClaimed
        /\ (Len(drives) = 3 /\ \A i \in 1..3 : DrivePair(drives[i]) = DrivePair(drives[1])) =>
              /\ Len(commuteResult.routes) = 1
              /\ commuteResult.routes[1].frequency = 300

\* C10: for a list of at least 10 drives analyzeCommutes retains exactly
\* one route for each unordered pair of normalized endpoints joined by at
\* least 3 drives (in either direction) and none for a pair joined by
\* fewer; the route's frequency is the number of its drives per week between
\* its first and last drive, rounded to 0.01 (the number of drives when they
\* all start at the same second).  For a list of fewer than 10 drives no
\* route is retained at all.
C10_RoutePerFrequentPair ==
    CommutesCalled =>
        IF Len(drives) < 10
        THEN commuteResult.routes = <<>> /\ commuteResult.routes_detected = 0
        ELSE /\ RetainedAsClaimed
             /\ commuteResult.routes_detected = Len(commuteResult.routes)
             /\ \A k \in 1..Len(commuteResult.routes) :
                   commuteResult.routes[k].frequency =
                       PerWeek(PairOf(commuteResult.routes[k].from_location,
                                      commuteResult.routes[k].to_location))

\* at least 10 drives: one pair joined by exactly 3 drives and retained, in
\* both directions for the other pair, which is retained too
C10_Witness ==
    /\ CommutesCalled
    /\ Len(drives) >= 10
    /\ Len(commuteResult.routes) = 2
    /\ \E i \in 1..Len(drives) : Cardinality(Joining(DrivePair(drives[i]))) = 3
    /\ \E i, j \in 1..Len(drives) :
          /\ DrivePair(drives[i]) = DrivePair(drives[j])
          /\ drives[i].starting_location # drives[j].starting_location

(***************************************************************************)
(* Properties of the commute clusterer's keys and trends (SpecAnalysis).   *)
(***************************************************************************)
\* the last two comma-separated segments of a label, trimmed (all of them
\* when the label has fewer than two)
LastTwoSegments(location) ==
    LET parts == Split(location, ",")
        n     == Len(parts)
    IN  IF n >= 2 THEN <<Trim(parts[n - 1]), Trim(parts[n])>> ELSE <<Trim(parts[1])>>

\* the labels of the drives that analyzeCommutes has clustered
ClusteredLabels ==
    {drives[i].starting_location : i \in 1..Len(drives)}
        \cup {drives[i].ending_location : i \in 1..Len(drives)}

\* C11 as stated: two labels get the same normalized location exactly when
\* their last two comma-separated segments, trimmed, are equal.
C11_Original ==
    (CommutesCalled /\ Len(drives) >= 10) =>
        \A a, b \in ClusteredLabels :
            (normalizeLocation(a) = normalizeLocation(b))
                <=> (LastTwoSegments(a) = LastTwoSegments(b))

\* the member drives of a retained route, oldest first
RouteMembers(route) ==
    SortByStart(SelectSeq(drives,
        LAMBDA d : DrivePair(d) = PairOf(route.from_location, route.to_location)))

\* the direction that a mean efficiency `recent` gives against `older`
DirectionAgainst(older, recent) ==
    IF older = 0 THEN "stable"
    ELSE IF (older - recent) * 100 > 5 * older THEN "improving"
    ELSE IF (older - recent) * 100 < -5 * older THEN "declining"
    ELSE "stable"

\* C12 as stated: recent_trend compares the mean efficiency of the 6 most
\* recent member drives with that of the 6 drives immediately before them
\* ('improving' above +5%, 'declining' below -5%, else 'stable'), and a
\* route of fewer than 12 members always reports 'stable'.
C12_Original ==
    CommutesCalled =>
        \A k \in 1..Len(commuteResult.routes) :
            LET members == RouteMembers(commuteResult.routes[k])
                n       == Len(members)
            IN  commuteResult.routes[k].recent_trend =
                    (IF n < 12 THEN "stable"
                     ELSE DirectionAgainst(
                              calculateAvgEfficiencyForDrives(SubSeq(members, n - 11, n - 6)),
                              calculateAvgEfficiencyForDrives(SubSeq(members, n - 5, n))))

(***************************************************************************)
(* Properties of the charging cost handler (SpecLearning).                 *)
(***************************************************************************)
FreshAnalyzer == [home |-> {}, work |-> {}, freq |-> <<>>]

\* the first detectChargingSessions of an analyzer that had learned nothing
FirstDetectionUnlearned ==
    /\ comp = "learning"
    /\ pc = "detected"
    /\ calls = 1
    /\ learnLocations(FreshAnalyzer, drives).home = {}
    /\ learnLocations(FreshAnalyzer, drives).work = {}

SessionSeconds(x) == x.ended_at - x.started_at

\* a session that classifyLocation takes for a long stay
IsLongStaySession(x) ==
    SessionSeconds(x) > 240 * 60 /\ ~HasSuperchargerMarker(x.location)

\* the long stays at the location of session k among the sessions up to k
LongStaysUpTo(k) ==
    Cardinality({j \in 1..k : /\ IsLongStaySession(sessions[j])
                               /\ sessions[j].location = sessions[k].location})

\* C13 as stated: the session that brings a location's long-stay count to 6
\* is classified 'home' whatever its duration and the location joins the
\* learned home set; earlier long stays are 'home' only over 480 minutes
\* and 'work' otherwise.
C13_Original ==
    FirstDetectionUnlearned =>
        \A k \in 1..Len(sessions) :
            IsLongStaySession(sessions[k]) =>
                /\ LongStaysUpTo(k) = 6 =>
                      /\ sessions[k].location_type = "home"
                      /\ sessions[k].location \in homeLocations
                /\ LongStaysUpTo(k) < 6 =>
                      sessions[k].location_type =
                          (IF SessionSeconds(sessions[k]) > 480 * 60 THEN "home" ELSE "work")

\* learnLocations has run on a new analyzer
LocationsLearned == comp = "learning" /\ pc = "learned"

\* the stays at a location: the positions i whose drive follows a drive that
\* ended there
StaysAt(l) == {i \in 2..Len(drives) : drives[i - 1].ending_location = l}

StayLength(i) == drives[i].started_at - drives[i - 1].ended_at

StayBeginHour(i) == (drives[i - 1].ended_at \div 3600) % 24

OvernightsAt(l) ==
    Cardinality({i \in StaysAt(l) :
        (StayBeginHour(i) > 20 \/ StayBeginHour(i) < 6) /\ StayLength(i) > 6 * 3600})

RECURSIVE TotalStayUpTo(_, _)
TotalStayUpTo(l, i) ==
    IF i < 2 THEN 0
    ELSE (IF i \in StaysAt(l) THEN StayLength(i) ELSE 0) + TotalStayUpTo(l, i - 1)

Visited == {drives[i - 1].ending_location : i \in 2..Len(drives)}

SessionsDetected == comp = "learning" /\ pc = "detected"

\* the rate of a session as claimed, cents per kWh
RateAsClaimed(x) ==
    LET hour == (x.started_at \div 3600) % 24
    IN  IF x.location_type = "home"
        THEN (IF hour \in {23, 0, 1, 2, 3, 4, 5, 6} THEN 9
              ELSE IF hour \in 16..20 THEN 32
              ELSE 13)
        ELSE IF x.location_type = "supercharger" THEN 28
        ELSE IF x.location_type = "work" THEN 0
        ELSE 20

\* C15: every session's cost_estimate is its energy (battery gain / 100 x 75
\* kWh) times the rate of its location type, rounded to a cent; for a
\* 'home' session the rate is chosen by the hour the session started: the
\* off-peak rate for hours 23 to 6, the peak rate for hours 16 to 20 and the
\* base home rate for every other hour; 'unknown' sessions are charged at
\* the public rate and 'work' sessions at the work rate.
C15_CostByTypeAndHour ==
    SessionsDetected =>
        \A k \in 1..Len(sessions) :
            LET x    == sessions[k]
                gain == x.ending_battery - x.starting_battery
            IN  /\ x.cost_per_kwh = RateAsClaimed(x)
                /\ x.energy_added_kwh = gain * 75
                \* (gain * 0.75 kWh) * (rate cents), rounded half up
                /\ x.cost_estimate = (2 * gain * 75 * RateAsClaimed(x) + 100) \div 200

\* home sessions at the off-peak, the peak and the base rate, and a session
\* of another type, detected by one call
C15_Witness ==
    /\ SessionsDetected
    /\ \E i, j, k, m \in 1..Len(sessions) :
          /\ sessions[i].location_type = "home" /\ sessions[i].cost_per_kwh = 9
          /\ sessions[j].location_type = "home" /\ sessions[j].cost_per_kwh = 32
          /\ sessions[k].location_type = "home" /\ sessions[k].cost_per_kwh = 13
          /\ sessions[m].location_type \in {"unknown", "work"}
          /\ sessions[i].cost_estimate > 0

\* C20 as stated: learnLocations computes the home and work sets from the
\* stays between drives adjacent in start-time order, so they are the same
\* for every permutation of the drive list: the same as for the list sorted
\* by start time and as for the reversed list.
C20_Original ==
    LocationsLearned =>
        /\ homeLocations = learnLocations(FreshAnalyzer, SortByStart(drives)).home
        /\ workLocations = learnLocations(FreshAnalyzer, SortByStart(drives)).work
        /\ homeLocations = learnLocations(FreshAnalyzer, Reverse(drives)).home
        /\ workLocations = learnLocations(FreshAnalyzer, Reverse(drives)).work

(***************************************************************************)
(* Properties of the trip calculator.                                      *)
(***************************************************************************)
TripCostCalled == comp = "trip" /\ tripResult # NoResult /\ tripResult # NoDrivesFound

\* the drives in start-time order and the percents gained before the ith
TripSorted == SortByStart(drives)
GainBefore(i) == TripSorted[i].starting_battery - TripSorted[i - 1].ending_battery

\* the percents the drives used, and those gained in gaps of more than 2
PercentUsed ==
    SumSeq([i \in 1..Len(drives) |->
               IF drives[i].starting_battery > drives[i].ending_battery
               THEN drives[i].starting_battery - drives[i].ending_battery ELSE 0])
PercentGainedInGaps ==
    SumSeq([i \in 1..Len(drives) |-> IF i > 1 /\ GainBefore(i) > 2 THEN GainBefore(i) ELSE 0])

\* the cents of quarters of a cent
Cents(quarters) == (2 * quarters + 4) \div 8

\* C16 as stated: whenever the gaps account for less energy than the trip
\* used, calculateTripCost adds the whole difference to the home bucket, so
\* that the two buckets price at least the energy the trip used.
C16_Original ==
    TripCostCalled =>
        LET c == tripResult.analysis.chargingCosts
        IN  /\ c.detected = PercentGainedInGaps
            /\ (c.detected < PercentUsed => c.unaccounted = PercentUsed - c.detected)
            /\ c.home + c.supercharger >= PercentUsed

\* C16: calculateTripCost adds the energy the gaps do not account for to the
\* home bucket only when the gaps account for less than half of the energy
\* the trip used, and the buckets then price that energy or more; from half
\* on nothing is added and the buckets price the energy gained in the gaps,
\* which may be less than the trip used.
C16_UnaccountedBelowHalf ==
    TripCostCalled =>
        LET c    == tripResult.analysis.chargingCosts
            cost == tripResult.analysis.cost_breakdown
        IN  /\ c.detected = PercentGainedInGaps
            /\ IF 2 * PercentGainedInGaps < PercentUsed
               THEN /\ c.unaccounted = PercentUsed - PercentGainedInGaps
                    /\ c.home + c.supercharger = PercentUsed
               ELSE /\ c.unaccounted = 0
                    /\ c.home + c.supercharger = PercentGainedInGaps
            /\ cost.electricity_cost = Cents(c.home * 3 * DEFAULT_HOME_RATE)
            /\ cost.charging_stops_cost = Cents(c.supercharger * 3 * DEFAULT_SUPERCHARGER_RATE)
            /\ cost.total_cost = Cents(c.home * 3 * DEFAULT_HOME_RATE
                                           + c.supercharger * 3 * DEFAULT_SUPERCHARGER_RATE)

\* a trip whose gaps account for half of its energy or more, but not for all
C16_Witness ==
    /\ TripCostCalled
    /\ PercentGainedInGaps > 0
    /\ 2 * PercentGainedInGaps >= PercentUsed
    /\ PercentGainedInGaps < PercentUsed
    /\ tripResult.analysis.chargingCosts.home
           + tripResult.analysis.chargingCosts.supercharger < PercentUsed

\* one call of the detector on a new analyzer, next to the trip calculator
DetectedOnce == comp = "trip" /\ calls = 1 /\ pc = "detected"

SessionGain(x) == x.ending_battery - x.starting_battery

\* the detector's fast-charge signature: under 60 minutes and over 40 points
FastChargeSignature(x) == x.ended_at - x.started_at < 60 * 60 /\ SessionGain(x) > 40

\* C17 as stated: the trip calculator costs a gap exactly when the detector
\* emits a session for it, and puts its energy into the Supercharger bucket
\* exactly when the session has the detector's fast-charge signature.
C17_Original ==
    (TripCostCalled /\ DetectedOnce) =>
        LET c == tripResult.analysis.chargingCosts
        IN  /\ c.detected = SumSeq([k \in 1..Len(sessions) |-> SessionGain(sessions[k])])
            /\ c.supercharger =
                   SumSeq([k \in 1..Len(sessions) |->
                              IF FastChargeSignature(sessions[k])
                              THEN SessionGain(sessions[k]) ELSE 0])

\* the estimate_future_trip handler has answered
FutureEstimated == comp = "trip" /\ futureResult # NoResult

\* the trip needs miles / 4 kWh of 75, that is miles / 3 percent, and with
\* the 15% buffer 23 * miles / 60 percent: needs and deficits are counted in
\* sixtieths of a percent
NeededSixtieths   == 23 * futureResult.distance_miles
DeficitSixtieths  ==
    IF NeededSixtieths > 60 * futureResult.current_battery_percent
    THEN NeededSixtieths - 60 * futureResult.current_battery_percent ELSE 0

PlansSuperchargerStops ==
    futureResult.estimate.strategy[1] = "Charge to 90% at home, then Supercharger stops"
PlansHomeCharge ==
    futureResult.estimate.strategy[1] = "Charge at home before departure"

ThreeHundredMilesFromSixtyFive ==
    futureResult.distance_miles = 300 /\ futureResult.current_battery_percent = 65

TripDistance == SumSeq([i \in 1..Len(drives) |-> drives[i].odometer_distance])

CostsAnalyzed == comp = "trip" /\ pc = "analyzed"

\* C19 as stated: every division by a distance, duration, energy or cost
\* that may be zero is guarded and yields 0: calculateTripCost reports a
\* cost_per_mile of 0 for a total distance of 0, mergeDrives a finite
\* average_speed for a driving duration of 0, and analyzeChargingCosts a
\* supercharger share and averages that never divide by a zero total.
C19_Original ==
    /\ (TripCostCalled /\ TripDistance = 0) =>
           tripResult.analysis.cost_breakdown.cost_per_mile = Fin(0)
    /\ TripCostCalled =>
           \A g \in 1..Len(mergeDrives(drives)) :
               mergeDrives(drives)[g].driving_duration_minutes = 0 =>
                   mergeDrives(drives)[g].average_speed.fin
    /\ CostsAnalyzed =>
           /\ costAnalysis.superchargerPercent.fin
           /\ costAnalysis.average_cost_per_session.fin
           /\ costAnalysis.average_cost_per_kwh.fin
           /\ costAnalysis.average_cost_per_mile.fin

(***************************************************************************)
(* The caller's drive list across the analyzer entry points.               *)
(***************************************************************************)
\* C21 as stated: no analyzer entry point modifies the drive list it is
\* given: after analyzeEfficiencyTrends or analyzeCommutes the caller's list
\* holds the same drives in the same order as before the call.
C21_Original ==
    [][(CallAnalyzeEfficiencyTrends \/ CallAnalyzeCommutes) => drives' = drives]_vars

(***************************************************************************)
(* The shared ChargingAnalyzer across invocations of analyze_charging_costs *)
(***************************************************************************)
\* what learnLocations followed by detectChargingSessions on the drive list
\* gives on a new analyzer
FirstInvocation == detectChargingSessions(learnLocations(FreshAnalyzer, drives), drives)

\* the analyzer has served exactly that invocation, and the learnLocations
\* call of a second one on the same list leaves it as it is
FirstInvocationDone ==
    /\ comp = "learning" /\ calls = 1 /\ pc = "detected"
    /\ AnalyzerState = FirstInvocation.st
    /\ sessions = FirstInvocation.sessions
    /\ learnLocations(AnalyzerState, drives) = AnalyzerState

\* C22 as stated: learnLocations followed by detectChargingSessions on the
\* same drive list, twice in a row on one analyzer, returns the same sessions
\* with the same location_type and cost_estimate both times.
C22_Original ==
    [][(FirstInvocationDone /\ CallDetectChargingSessions) => sessions' = sessions]_vars

(***************************************************************************)
(* The detector and the cost analysis on lists without charging.           *)
(***************************************************************************)
TripDetected == comp = "trip" /\ pc \in {"detected", "analyzed"}

\* no drive starts with more battery than the drive before it, in start-time
\* order, ended with
NoBatteryIncrease ==
    \A i \in 2..Len(drives) : GainBefore(i) <= 0

ZeroByLocation == [sessions |-> 0, cost |-> 0, kwh |-> 0]

\* C23: detectChargingSessions returns no session for a drive list in which
\* no pair of drives consecutive in start-time order shows a battery
\* increase, and analyzeChargingCosts of no sessions returns zero for every
\* total, average and per-location figure with a non-empty recommendation
\* list.
C23_NothingWithoutIncrease ==
    /\ (TripDetected /\ NoBatteryIncrease) => sessions = <<>>
    /\ (CostsAnalyzed /\ sessions = <<>>) =>
           /\ costAnalysis.total_sessions = 0
           /\ costAnalysis.total_cost = 0
           /\ costAnalysis.total_kwh = 0
           /\ costAnalysis.total_miles_added = 0
           /\ costAnalysis.average_cost_per_session = Fin(0)
           /\ costAnalysis.average_cost_per_kwh = Fin(0)
           /\ costAnalysis.average_cost_per_mile = Fin(0)
           /\ \A t \in LocationTypes : costAnalysis.sessions_by_location[t] = ZeroByLocation
           /\ costAnalysis.potential_savings = 0
           /\ Len(costAnalysis.recommendations) > 0

\* two drives, the later starting lower than the earlier ended, handed over
\* later drive first, detected and analyzed
C23_Witness ==
    /\ CostsAnalyzed
    /\ Len(drives) = 2
    /\ drives[1].started_at > drives[2].started_at
    /\ NoBatteryIncrease
    /\ \E i \in 2..Len(drives) : GainBefore(i) < -2
    /\ sessions = <<>>
    /\ costAnalysis.total_sessions = 0

RetainedDrive(d) == DriveEfficiency(d) > 0 /\ DriveEfficiency(d) < 60000

\* the efficiencies of the retained drives that started under key k
OwnBucket(KeyOf(_), k) ==
    LET own == SelectSeq(drives, LAMBDA d : RetainedDrive(d) /\ KeyOf(d) = k)
    IN  [i \in 1..Len(own) |-> DriveEfficiency(own[i])]

OwnDayBucket(day)   == OwnBucket(LAMBDA d : DayName(d.started_at), day)
OwnHourBucket(hour) == OwnBucket(LAMBDA d : HourOf(d.started_at), hour)

DaysWithRetained  == {day \in Members(DayNames) : Len(OwnDayBucket(day)) > 0}
HoursWithRetained == {hour \in 0..23 : Len(OwnHourBucket(hour)) >= 2}

\* C25 as stated: each retained data point is counted under the weekday and
\* hour of the drive it was computed from, and discarded drives under none:
\* the best (worst) day is a day with the lowest (highest) average over the
\* retained drives of that weekday, and the best hour an hour with the lowest
\* average among hours with two retained drives or more.
C25_Original ==
    (EfficiencyCalled /\ EnoughEfficiencyDrives(drives)) =>
        LET patterns == effResult.factors_analysis.time_patterns
        IN  /\ IF DaysWithRetained = {}
               THEN /\ patterns.best_day_of_week = "Unknown"
                    /\ patterns.worst_day_of_week = "Unknown"
               ELSE /\ patterns.best_day_of_week \in DaysWithRetained
                    /\ patterns.worst_day_of_week \in DaysWithRetained
                    /\ \A day \in DaysWithRetained :
                          /\ average(OwnDayBucket(patterns.best_day_of_week))
                                 <= average(OwnDayBucket(day))
                          /\ average(OwnDayBucket(patterns.worst_day_of_week))
                                 >= average(OwnDayBucket(day))
            /\ IF HoursWithRetained = {}
               THEN patterns.best_time_of_day = UnknownTime
               ELSE \E hour \in HoursWithRetained :
                       /\ patterns.best_time_of_day = FormatHour(hour)
                       /\ \A other \in HoursWithRetained :
                             average(OwnHourBucket(hour)) <= average(OwnHourBucket(other))

\* C26 as stated: after any sequence of learnLocations and
\* detectChargingSessions calls on one analyzer, no location label is in both
\* the learned home set and the learned work set.
C26_Original ==
    comp = "shared" => homeLocations \cap workLocations = {}

(***************************************************************************)
(* Charging stops of the segmenter against the sessions of the detector    *)
(***************************************************************************)
MergedAndDetected == comp = "merge" /\ pc = "detected"

\* the stops of all merged drives
MergedStops == Flatten([g \in 1..Len(merged) |-> merged[g].stops])

SessionMatches(stop, session) ==
    /\ session.started_at = stop.started_at
    /\ session.ended_at = stop.ended_at
    /\ session.location = stop.location

\* C27: every stop mergeDrives records with stop_type 'charging' has a
\* session of detectChargingSessions on the same drives with the same start,
\* end and location.
C27_ChargingStopHasSession ==
    MergedAndDetected =>
        \A k \in 1..Len(MergedStops) :
            MergedStops[k].stop_type = "charging" =>
                \E j \in 1..Len(sessions) : SessionMatches(MergedStops[k], sessions[j])

\* a charging stop next to a session that is no stop: three drives, the
\* detector reports more sessions than the segmenter has charging stops
C27_Witness ==
    /\ MergedAndDetected
    /\ \E k \in 1..Len(MergedStops) : MergedStops[k].stop_type = "charging"
    /\ \E k \in 1..Len(MergedStops) : MergedStops[k].stop_type = "short"
    /\ Len(sessions) > Cardinality({k \in 1..Len(MergedStops) :
                                      MergedStops[k].stop_type = "charging"})

(***************************************************************************)
(* The number of charging stops against the chosen plan                    *)
(***************************************************************************)
\* C28 as stated: charging_stops_needed is at least 1 exactly when the plan
\* is home plus Supercharger, and 0 for home charging alone and for no
\* charging.
C28_Original ==
    FutureEstimated =>
        /\ futureResult.estimate.charging_stops_needed >= 1 <=> PlansSuperchargerStops
        /\ ~PlansSuperchargerStops => futureResult.estimate.charging_stops_needed = 0

(***************************************************************************)
(* GeocodingService                                                        *)
(*                                                                         *)
(* Coordinates are hundred-thousandths of a degree, times are              *)
(* milliseconds.  An address is the sequence of the parts that the code    *)
(* joins with ', '.                                                        *)
(***************************************************************************)
RATE_LIMIT_MS == 1000

\* the size above which reverseGeocode deletes the first key of the Map
CacheLimit == 100

\* Number.prototype.toFixed(4) of a coordinate, in ten-thousandths of a degree
ToFixed4(x) == IF x >= 0 THEN (x + 5) \div 10 ELSE -((5 - x) \div 10)

\* cacheKey = `${latitude.toFixed(4)},${longitude.toFixed(4)}`
CacheKey(latitude, longitude) == <<ToFixed4(latitude), ToFixed4(longitude)>>

\* the catch branch: `${latitude.toFixed(4)}, ${longitude.toFixed(4)}`
CoordinateText(latitude, longitude) ==
    <<"coordinates", ToFixed4(latitude), ToFixed4(longitude)>>

LocationUnavailable == <<"Location unavailable">>
UnknownLocation     == <<"Unknown location">>

\* an absent or empty field of the Nominatim answer
Missing == ""
NoAddress == [none |-> TRUE]

\* display_name?.split(',').slice(0, n).join(', ') || 'Unknown location'
DisplayName(data, n) ==
    IF data.display_name = <<>> THEN UnknownLocation
    ELSE SubSeq(data.display_name, 1, Min2(n, Len(data.display_name)))

formatAddress(data) ==
    IF data.address = NoAddress THEN DisplayName(data, 3)
    ELSE LET addr   == data.address
             street == IF addr.house_number # Missing /\ addr.road # Missing
                       THEN <<addr.house_number \o " " \o addr.road>>
                       ELSE IF addr.road # Missing THEN <<addr.road>>
                       ELSE IF addr.amenity # Missing THEN <<addr.amenity>>
                       ELSE <<>>
             place  == IF addr.city # Missing THEN <<addr.city>>
                       ELSE IF addr.county # Missing THEN <<addr.county>>
                       ELSE <<>>
             state  == IF addr.state # Missing THEN <<addr.state>> ELSE <<>>
             \* country_code.toUpperCase()
             country == IF addr.country_code = "us" THEN <<"US">>
                        ELSE IF addr.country_code # Missing THEN <<addr.country_code>>
                        ELSE <<>>
             parts  == street \o place \o state \o country
         IN  IF parts = <<>> THEN DisplayName(data, 4) ELSE parts

\* this.cache.has(cacheKey)
CacheHas(c, key) == \E k \in 1..Len(c) : c[k].key = key

\* this.cache.get(cacheKey)
CacheGet(c, key) == c[CHOOSE k \in 1..Len(c) : c[k].key = key].address

\* this.cache.set(cacheKey, address): a key that is present keeps its place
CacheSet(c, key, address) ==
    IF CacheHas(c, key)
    THEN [k \in 1..Len(c) |-> IF c[k].key = key THEN [key |-> key, address |-> address]
                                ELSE c[k]]
    ELSE Append(c, [key |-> key, address |-> address])

\* a size limit that deletes the key that was inserted last
LimitCacheSizeNewest(c) == IF Len(c) > CacheLimit THEN SubSeq(c, 1, Len(c) - 1) ELSE c

\* if (this.cache.size > 100) delete the first key of the Map
LimitCacheSize(c) == IF Len(c) > CacheLimit THEN Tail(c) ELSE c

\* a rate limit that never waits
WaitTimeNone(now_ms, last) == 0

\* enforceRateLimit: the time to wait, 0 when the request may go out at once
WaitTime(now_ms, last) ==
    IF now_ms - last < RATE_LIMIT_MS THEN RATE_LIMIT_MS - (now_ms - last) ELSE 0

(***************************************************************************)
(* Callers of reverseGeocode.  A call runs to its first await in one step; *)
(* it then waits for its timer, sends its request, and gets an answer or   *)
(* an error.  The service has either just been loaded or has answered      *)
(* CacheLimit lookups of other places before.                              *)
(***************************************************************************)
MaxLookups == 3
MaxClockMs == 2000
TickMs     == 500

\* latitude and longitude of the places asked for; 0 is what the handler
\* passes when a drive has no position
Places ==
    { <<0, 0>>,
      <<100010, 100010>>,      \* the place looked up first by a service in use
      <<3777490, 12241940>>,
      <<3777493, 12241942>> }  \* the same place a few metres away

NominatimAnswers ==
    { [ address      |-> [ house_number |-> "1", road |-> "Main St", amenity |-> Missing,
                           city |-> "Springfield", county |-> Missing, state |-> "IL",
                           country_code |-> "us" ],
        display_name |-> <<"1", "Main St", "Springfield", "IL", "USA">> ],
      [ address      |-> NoAddress,
        display_name |-> <<>> ] }

\* the cache after n lookups of n different places, one after the other
UsedCache(n) ==
    [k \in 1..n |-> [key |-> CacheKey(100000 * k + 10, 100000 * k + 10),
                     address |-> <<"Place", k>>]]

InitGeocoding ==
    /\ comp = "geocoding"
    /\ pc = "serving"
    /\ drives = <<>>
    /\ SegmenterIdle
    /\ ChargingAnalyzerNew
    /\ AnalysisIdle
    /\ CostIdle
    /\ cache \in {UsedCache(0), UsedCache(CacheLimit)}
    /\ lastRequestTime = 0
    /\ clock = RATE_LIMIT_MS
    /\ lookups = <<>>
    /\ requestLog = <<>>

GeoFrame == UNCHANGED <<comp, pc, drives, segVars, chargeVars, analysisVars, costVars>>

\* reverseGeocode up to its first await: the argument check, the cache
\* lookup, and enforceRateLimit up to its timer; a call that need not wait
\* sets lastRequestTime and sends its request
StartLookup ==
    /\ comp = "geocoding"
    /\ Len(lookups) < MaxLookups
    /\ \E place \in Places :
          LET key  == CacheKey(place[1], place[2])
              wait == WaitTime(clock, lastRequestTime)
              call == [ latitude |-> place[1], longitude |-> place[2], key |-> key ]
          IN  IF place[1] = 0 \/ place[2] = 0
              THEN /\ lookups' = Append(lookups, call @@ [ at |-> "returned", wakeAt |-> 0,
                                                           result |-> LocationUnavailable ])
                   /\ UNCHANGED <<cache, lastRequestTime, requestLog>>
              ELSE IF CacheHas(cache, key)
              THEN /\ lookups' = Append(lookups, call @@ [ at |-> "returned", wakeAt |-> 0,
                                                           result |-> CacheGet(cache, key) ])
                   /\ UNCHANGED <<cache, lastRequestTime, requestLog>>
              ELSE IF wait > 0
              THEN /\ lookups' = Append(lookups, call @@ [ at |-> "waiting",
                                                           wakeAt |-> clock + wait,
                                                           result |-> <<>> ])
                   /\ UNCHANGED <<cache, lastRequestTime, requestLog>>
              ELSE /\ lookups' = Append(lookups, call @@ [ at |-> "fetching", wakeAt |-> 0,
                                                           result |-> <<>> ])
                   /\ lastRequestTime' = clock
                   /\ requestLog' = Append(requestLog, clock)
                   /\ UNCHANGED cache
    /\ UNCHANGED clock
    /\ GeoFrame

\* the timer of enforceRateLimit fires, at its time or later: the call sets
\* lastRequestTime and sends its request
TimerFires ==
    /\ comp = "geocoding"
    /\ \E i \in 1..Len(lookups) :
          /\ lookups[i].at = "waiting"
          /\ clock >= lookups[i].wakeAt
          /\ lookups' = [lookups EXCEPT ![i].at = "fetching"]
    /\ lastRequestTime' = clock
    /\ requestLog' = Append(requestLog, clock)
    /\ UNCHANGED <<cache, clock>>
    /\ GeoFrame

\* the answer arrives with response.ok: the address is formatted and cached,
\* the cache is cut to its limit, and the call returns
ResponseArrives ==
    /\ comp = "geocoding"
    /\ \E i \in 1..Len(lookups), data \in NominatimAnswers :
          /\ lookups[i].at = "fetching"
          /\ LET address == formatAddress(data)
             IN  /\ cache' = LimitCacheSize(CacheSet(cache, lookups[i].key, address))
                 /\ lookups' = [lookups EXCEPT ![i].at = "returned", ![i].result = address]
    /\ UNCHANGED <<lastRequestTime, clock, requestLog>>
    /\ GeoFrame

\* fetch rejects, times out, or answers with another status: the catch
\* branch returns the coordinates
RequestFails ==
    /\ comp = "geocoding"
    /\ \E i \in 1..Len(lookups) :
          /\ lookups[i].at = "fetching"
          /\ lookups' = [lookups EXCEPT ![i].at = "returned",
                                        ![i].result = CoordinateText(lookups[i].latitude,
                                                                     lookups[i].longitude)]
    /\ UNCHANGED <<cache, lastRequestTime, clock, requestLog>>
    /\ GeoFrame

\* time passes
Tick ==
    /\ comp = "geocoding"
    /\ clock + TickMs <= MaxClockMs
    /\ clock' = clock + TickMs
    /\ UNCHANGED <<cache, lastRequestTime, lookups, requestLog>>
    /\ GeoFrame

NextGeocoding ==
    \/ StartLookup
    \/ TimerFires
    \/ ResponseArrives
    \/ RequestFails
    \/ Tick

SpecGeocoding == InitGeocoding /\ [][NextGeocoding]_vars

(***************************************************************************)
(* The spacing of Nominatim requests                                       *)
(***************************************************************************)
\* C29 as stated: in every interleaving of reverseGeocode calls that miss
\* the cache, no two Nominatim requests are sent less than 1000 ms apart.
C29_Original ==
    comp = "geocoding" =>
        \A i, j \in 1..Len(requestLog) :
            i < j => requestLog[j] - requestLog[i] >= RATE_LIMIT_MS

(***************************************************************************)
(* The bounded address cache                                               *)
(***************************************************************************)
\* call i returns in this step
Returns(i) ==
    /\ lookups'[i].at = "returned"
    /\ (i <= Len(lookups) => lookups[i].at # "returned")

FailedText(call) == CoordinateText(call.latitude, call.longitude)

\* C30: the cache never holds more than 100 entries; a call that finds its
\* key in the cache returns the stored address and sends no request; a call
\* whose request fails leaves the cache as it was; a call whose request
\* succeeds stores its address under its key, and when that makes 101
\* entries the entry inserted first is deleted and no other.
C30_CacheBoundedFifo ==
    /\ [](comp = "geocoding" => Len(cache) <= CacheLimit)
    /\ [][comp = "geocoding" =>
            \A i \in 1..Len(lookups') :
                Returns(i) =>
                    LET call == lookups'[i]
                    IN  /\ (i > Len(lookups) /\ CacheHas(cache, call.key)
                              /\ call.result # LocationUnavailable) =>
                               /\ call.result = CacheGet(cache, call.key)
                               /\ requestLog' = requestLog
                               /\ cache' = cache
                        /\ (i <= Len(lookups) /\ call.result = FailedText(call)) =>
                               cache' = cache
                        /\ (i <= Len(lookups) /\ call.result # FailedText(call)) =>
                               /\ CacheHas(cache', call.key)
                               /\ CacheGet(cache', call.key) = call.result
                               /\ CacheHas(cache, call.key) => Len(cache') = Len(cache)
                               /\ (~CacheHas(cache, call.key) /\ Len(cache) < CacheLimit) =>
                                      cache' = Append(cache, [key |-> call.key,
                                                              address |-> call.result])
                               /\ (~CacheHas(cache, call.key) /\ Len(cache) = CacheLimit) =>
                                      cache' = Append(Tail(cache), [key |-> call.key,
                                                                    address |-> call.result])
      ]_vars

\* a full cache after three calls have returned: one stored its address and
\* pushed out the entry inserted first, one failed, one was served from
\* the cache what the first had stored
C30_Witness ==
    /\ comp = "geocoding"
    /\ Len(lookups) >= 3
    /\ \A i \in 1..Len(lookups) : lookups[i].at = "returned"
    /\ Len(cache) = CacheLimit
    /\ cache[1] = UsedCache(CacheLimit)[2]
    /\ Len(requestLog) = 2
    /\ \E i, j, k \in 1..Len(lookups) :
          /\ i < k /\ j # i /\ j # k
          /\ lookups[i].key = lookups[k].key
          /\ cache[CacheLimit] = [key |-> lookups[i].key, address |-> lookups[i].result]
          /\ lookups[k].result = lookups[i].result
          /\ lookups[j].result = FailedText(lookups[j])

====
